---------------------------- MODULE Spec2Model ----------------------------
(***************************************************************************)
(* Client side of the WebSocket opening handshake of websockets-monoio:    *)
(* URL parsing (src/src/url.rs), the HTTP Upgrade request and response     *)
(* (src/src/http_upgrade.rs) and the sequencing of one connect attempt     *)
(* (src/src/client.rs).                                                    *)
(*                                                                         *)
(* Text is modelled as sequences of bytes (0..255).  A string literal of   *)
(* the source is the sequence of its ASCII codes.                          *)
(***************************************************************************)
EXTENDS Integers, Sequences, FiniteSets, TLC

(***************************************************************************)
(* Generic helpers on byte sequences.                                      *)
(***************************************************************************)
Min(S) == CHOOSE x \in S : \A y \in S : x <= y

Max(S) == CHOOSE x \in S : \A y \in S : x >= y

\* s[a..b] with 1-based inclusive bounds; empty when b < a.
Slice(s, a, b) == IF b < a THEN << >> ELSE SubSeq(s, a, b)

\* s[from..] of Rust, 1-based: the bytes of s from index from on.
Tail_(s, from) == Slice(s, from, Len(s))

StartsWith(s, p) == Len(s) >= Len(p) /\ SubSeq(s, 1, Len(p)) = p

RECURSIVE Concat(_)
Concat(ss) == IF ss = << >> THEN << >> ELSE Head(ss) \o Concat(Tail(ss))

\* n copies of byte b.
Repeat(b, n) == [i \in 1..n |-> b]

(***************************************************************************)
(* Literals of the source.                                                 *)
(***************************************************************************)
\* b"GET "
REQUEST_PREFIX == <<71, 69, 84, 32>>
\* b" HTTP/1.1\r\nHost: "
REQUEST_SUFFIX == <<32, 72, 84, 84, 80, 47, 49, 46, 49, 13, 10, 72, 111, 115, 116, 58, 32>>
\* b"\r\nUpgrade: websocket\r\nConnection: Upgrade\r\nSec-WebSocket-Version: 13\r\nSec-WebSocket-Key: "
UPGRADE_HEADERS == <<13, 10, 85, 112, 103, 114, 97, 100, 101, 58, 32, 119, 101, 98, 115, 111, 99, 107, 101, 116, 13, 10, 67, 111, 110, 110, 101, 99, 116, 105, 111, 110, 58, 32, 85, 112, 103, 114, 97, 100, 101, 13, 10, 83, 101, 99, 45, 87, 101, 98, 83, 111, 99, 107, 101, 116, 45, 86, 101, 114, 115, 105, 111, 110, 58, 32, 49, 51, 13, 10, 83, 101, 99, 45, 87, 101, 98, 83, 111, 99, 107, 101, 116, 45, 75, 101, 121, 58, 32>>
\* b": "
HEADER_SEPARATOR == <<58, 32>>
\* b"\r\n"
CRLF == <<13, 10>>
\* b"\r\n\r\n", the needle of the Finder
TERMINATOR == <<13, 10, 13, 10>>
\* "Connection"
NAME_CONNECTION == <<67, 111, 110, 110, 101, 99, 116, 105, 111, 110>>
\* "Upgrade"
NAME_UPGRADE == <<85, 112, 103, 114, 97, 100, 101>>
\* "Sec-WebSocket-Accept"
NAME_ACCEPT == <<83, 101, 99, 45, 87, 101, 98, 83, 111, 99, 107, 101, 116, 45, 65, 99, 99, 101, 112, 116>>
\* "upgrade"
TOKEN_UPGRADE == <<117, 112, 103, 114, 97, 100, 101>>
\* "websocket"
TOKEN_WEBSOCKET == <<119, 101, 98, 115, 111, 99, 107, 101, 116>>
\* "wss://"
PREFIX_WSS == <<119, 115, 115, 58, 47, 47>>
\* "ws://"
PREFIX_WS == <<119, 115, 58, 47, 47>>

\* hdr.len() > 16 * 1024
MAX_HEADER_BYTES == 16 * 1024
\* let mut chunk = [0u8; 1024]
CHUNK_SIZE == 1024
\* [httparse::EMPTY_HEADER; 32]
MAX_HEADERS == 32
\* the status code of "Switching Protocols"
SWITCHING_PROTOCOLS == 101
\* default ports of the two schemes
DEFAULT_PORT_WS == 80
DEFAULT_PORT_WSS == 443
\* u16::MAX
U16_MAX == 65535

(***************************************************************************)
(* str::eq_ignore_ascii_case, std::str::from_utf8, str::trim, str::split.  *)
(***************************************************************************)
to_ascii_lowercase(b) == IF b \in 65..90 THEN b + 32 ELSE b

eq_ignore_ascii_case(a, b) ==
    /\ Len(a) = Len(b)
    /\ \A i \in 1..Len(a) : to_ascii_lowercase(a[i]) = to_ascii_lowercase(b[i])

IsCont(v, i) == i <= Len(v) /\ v[i] \in 128..191

\* Number of bytes of the well-formed UTF-8 scalar that starts at v[i];
\* 0 when no well-formed scalar starts there.
Utf8CharLen(v, i) ==
    LET b == v[i] IN
    IF b <= 127 THEN 1
    ELSE IF b \in 194..223 THEN (IF IsCont(v, i + 1) THEN 2 ELSE 0)
    ELSE IF b = 224 THEN
        (IF i + 1 <= Len(v) /\ v[i + 1] \in 160..191 /\ IsCont(v, i + 2) THEN 3 ELSE 0)
    ELSE IF b \in (225..236) \cup {238, 239} THEN
        (IF IsCont(v, i + 1) /\ IsCont(v, i + 2) THEN 3 ELSE 0)
    ELSE IF b = 237 THEN
        (IF i + 1 <= Len(v) /\ v[i + 1] \in 128..159 /\ IsCont(v, i + 2) THEN 3 ELSE 0)
    ELSE IF b = 240 THEN
        (IF i + 1 <= Len(v) /\ v[i + 1] \in 144..191 /\ IsCont(v, i + 2) /\ IsCont(v, i + 3)
         THEN 4 ELSE 0)
    ELSE IF b \in 241..243 THEN
        (IF IsCont(v, i + 1) /\ IsCont(v, i + 2) /\ IsCont(v, i + 3) THEN 4 ELSE 0)
    ELSE IF b = 244 THEN
        (IF i + 1 <= Len(v) /\ v[i + 1] \in 128..143 /\ IsCont(v, i + 2) /\ IsCont(v, i + 3)
         THEN 4 ELSE 0)
    ELSE 0

RECURSIVE Utf8ValidFrom(_, _)
Utf8ValidFrom(v, i) ==
    IF i > Len(v) THEN TRUE
    ELSE LET n == Utf8CharLen(v, i) IN
         IF n = 0 THEN FALSE ELSE Utf8ValidFrom(v, i + n)

\* std::str::from_utf8(value).is_ok()
from_utf8_ok(v) == Utf8ValidFrom(v, 1)

\* Length in bytes of the White_Space character encoded at v[i..], 0 if the
\* bytes there do not encode one (char::is_whitespace).
WhiteSpaceLen(v, i) ==
    IF i < 1 \/ i > Len(v) THEN 0
    ELSE IF v[i] \in (9..13) \cup {32} THEN 1
    ELSE IF v[i] = 194 /\ i + 1 <= Len(v) /\ v[i + 1] \in {133, 160} THEN 2
    ELSE IF i + 2 > Len(v) THEN 0
    ELSE IF v[i] = 225 /\ v[i + 1] = 154 /\ v[i + 2] = 128 THEN 3
    ELSE IF v[i] = 226 /\ v[i + 1] = 128 /\ v[i + 2] \in (128..138) \cup {168, 169, 175} THEN 3
    ELSE IF v[i] = 226 /\ v[i + 1] = 129 /\ v[i + 2] = 159 THEN 3
    ELSE IF v[i] = 227 /\ v[i + 1] = 128 /\ v[i + 2] = 128 THEN 3
    ELSE 0

RECURSIVE TrimStartIdx(_, _)
TrimStartIdx(v, i) ==
    LET n == WhiteSpaceLen(v, i) IN
    IF n = 0 THEN i ELSE TrimStartIdx(v, i + n)

RECURSIVE TrimEndIdx(_, _, _)
TrimEndIdx(v, lo, j) ==
    IF j < lo THEN j
    ELSE LET ks == {k \in 1..3 : j - k + 1 >= lo /\ WhiteSpaceLen(v, j - k + 1) = k} IN
         IF ks = {} THEN j ELSE TrimEndIdx(v, lo, j - Min(ks))

\* str::trim on valid UTF-8 text
trim(v) ==
    LET lo == TrimStartIdx(v, 1) IN Slice(v, lo, TrimEndIdx(v, lo, Len(v)))

\* The parts of text.split(','), as a set (the caller only asks `any`).
split_comma(v) ==
    LET commas == {i \in 1..Len(v) : v[i] = 44}
        bounds == {0} \cup commas \cup {Len(v) + 1}
    IN  { Slice(v, a + 1, Min({b \in bounds : b > a}) - 1) : a \in bounds \ {Len(v) + 1} }


(***************************************************************************)
(* Header helpers of http_upgrade.rs.  Result<bool, Utf8Error> is a record *)
(* [ok, val]: ok = FALSE is Err(Utf8Error).  Option<&[u8]> is a record     *)
(* [some, value].                                                          *)
(***************************************************************************)
OkBool(b) == [ok |-> TRUE, val |-> b]

ErrUtf8 == [ok |-> FALSE, val |-> FALSE]

None == [some |-> FALSE, value |-> << >>]

Some(v) == [some |-> TRUE, value |-> v]

\* headers.iter().find(|h| h.name.eq_ignore_ascii_case(name)).map(|h| h.value)
\* Faulty variant of find_header: the last header of that name is taken.
find_header_last(headers, name) ==
    LET hits == {i \in 1..Len(headers) : eq_ignore_ascii_case(headers[i].name, name)}
    IN  IF hits = {} THEN None ELSE Some(headers[Max(hits)].value)

find_header(headers, name) ==
    LET hits == {i \in 1..Len(headers) : eq_ignore_ascii_case(headers[i].name, name)}
    IN  IF hits = {} THEN None ELSE Some(headers[Min(hits)].value)

\* Ok(std::str::from_utf8(value)?.eq_ignore_ascii_case(token))
value_eq_ascii(value, token) ==
    IF ~from_utf8_ok(value) THEN ErrUtf8
    ELSE OkBool(eq_ignore_ascii_case(value, token))

\* Faulty variant of header_has_token: the whole value must be the token.
header_has_token_exact(value, token) ==
    IF ~from_utf8_ok(value) THEN ErrUtf8
    ELSE OkBool(eq_ignore_ascii_case(trim(value), token))

\* text.split(',').any(|part| part.trim().eq_ignore_ascii_case(token))
header_has_token(value, token) ==
    IF ~from_utf8_ok(value) THEN ErrUtf8
    ELSE OkBool(\E part \in split_comma(value) : eq_ignore_ascii_case(trim(part), token))

(***************************************************************************)
(* httparse::Response::parse as read_response uses it: a status line and   *)
(* at most MAX_HEADERS headers.  The result is                             *)
(*   [kind |-> "Complete", code, headers]  or                              *)
(*   [kind |-> "Partial"]  or  [kind |-> "Error"]  (with code 0, no        *)
(*   headers).                                                             *)
(***************************************************************************)
PComplete(c, hs) == [kind |-> "Complete", code |-> c, headers |-> hs]

PPartial == [kind |-> "Partial", code |-> 0, headers |-> << >>]

PError == [kind |-> "Error", code |-> 0, headers |-> << >>]

IsDigit(b) == b \in 48..57

\* tchar of RFC 7230: the bytes of a header name
is_header_name_token(b) ==
    \/ b \in 48..57
    \/ b \in 65..90
    \/ b \in 97..122
    \/ b \in {33, 35, 36, 37, 38, 39, 42, 43, 45, 46, 94, 95, 96, 124, 126}

\* the bytes of a header value: HTAB, visible ASCII, SP and obs-text
is_header_value_token(b) == b = 9 \/ b \in 32..126 \/ b >= 128

\* the bytes of a reason phrase
is_reason_token(b) == b = 9 \/ b \in 32..126 \/ b >= 128

\* First index j >= from with data[j] in the set of bytes described by the
\* complement of Keep; Len(data) + 1 when there is none.
FirstNotNameToken(data, from) ==
    LET S == {j \in from..Len(data) : ~is_header_name_token(data[j])}
    IN  IF S = {} THEN Len(data) + 1 ELSE Min(S)

FirstNotValueToken(data, from) ==
    LET S == {j \in from..Len(data) : ~is_header_value_token(data[j])}
    IN  IF S = {} THEN Len(data) + 1 ELSE Min(S)

FirstNotBlank(data, from) ==
    LET S == {j \in from..Len(data) : data[j] \notin {32, 9}}
    IN  IF S = {} THEN Len(data) + 1 ELSE Min(S)

\* Index of the last byte of data[lo..hi] that is neither SP nor HTAB; lo - 1
\* when there is none.
RECURSIVE LastNotBlank(_, _, _)
LastNotBlank(data, lo, hi) ==
    IF hi < lo \/ data[hi] \notin {32, 9} THEN hi ELSE LastNotBlank(data, lo, hi - 1)

\* skip_empty_lines: [st, pos]; st is "ok", "Partial" or "Error".
RECURSIVE skip_empty_lines(_, _)
skip_empty_lines(data, i) ==
    IF i > Len(data) THEN [st |-> "Partial", pos |-> i]
    ELSE IF data[i] = 13 THEN
        (IF i + 1 > Len(data) THEN [st |-> "Partial", pos |-> i]
         ELSE IF data[i + 1] = 10 THEN skip_empty_lines(data, i + 2)
         ELSE [st |-> "Error", pos |-> i])
    ELSE IF data[i] = 10 THEN skip_empty_lines(data, i + 1)
    ELSE [st |-> "ok", pos |-> i]

\* "HTTP/1." as bytes; the eighth byte is '0' or '1'
HTTP_1_DOT == <<72, 84, 84, 80, 47, 49, 46>>

\* parse_version
parse_version(data, i) ==
    IF i + 7 <= Len(data) THEN
        (IF SubSeq(data, i, i + 6) = HTTP_1_DOT /\ data[i + 7] \in {48, 49}
         THEN [st |-> "ok", pos |-> i + 8]
         ELSE [st |-> "Error", pos |-> i])
    ELSE IF \A k \in 0..(Len(data) - i) : k <= 6 /\ data[i + k] = HTTP_1_DOT[k + 1]
         THEN [st |-> "Partial", pos |-> i]
         ELSE [st |-> "Error", pos |-> i]

\* One step of the header loop at index i: [st, next, h].  st is "header"
\* (h is the header, the next line starts at next), "end" (the blank line
\* that ends the head), "Partial" or "Error".
LineResult(st_, next_, h_) == [st |-> st_, next |-> next_, h |-> h_]

NoHeader == [name |-> << >>, value |-> << >>]

parse_header_line(data, i) ==
    IF i > Len(data) THEN LineResult("Partial", i, NoHeader)
    ELSE IF data[i] = 13 THEN
        (IF i + 1 > Len(data) THEN LineResult("Partial", i, NoHeader)
         ELSE IF data[i + 1] = 10 THEN LineResult("end", i + 2, NoHeader)
         ELSE LineResult("Error", i, NoHeader))
    ELSE IF data[i] = 10 THEN LineResult("end", i + 1, NoHeader)
    ELSE IF ~is_header_name_token(data[i]) THEN LineResult("Error", i, NoHeader)
    ELSE
      LET j == FirstNotNameToken(data, i)
          k == FirstNotBlank(data, j + 1)
          m == FirstNotValueToken(data, k)
          h == [name  |-> Slice(data, i, j - 1),
                value |-> Slice(data, k, LastNotBlank(data, k, m - 1))]
      IN
      IF j > Len(data) THEN LineResult("Partial", i, NoHeader)
      ELSE IF data[j] # 58 THEN LineResult("Error", i, NoHeader)
      ELSE IF k > Len(data) \/ m > Len(data) THEN LineResult("Partial", i, NoHeader)
      ELSE IF data[m] = 13 THEN
          (IF m + 1 > Len(data) THEN LineResult("Partial", i, NoHeader)
           ELSE IF data[m + 1] = 10 THEN LineResult("header", m + 2, h)
           ELSE LineResult("Error", i, NoHeader))
      ELSE IF data[m] = 10 THEN LineResult("header", m + 1, h)
      ELSE LineResult("Error", i, NoHeader)

\* The header loop from index i on.  A header line ends at a line feed and
\* holds no other, so the loop visits, in increasing order, i and the
\* indices that follow a line feed, up to the first that is no header line.
parse_headers(data, i, code) ==
    LET starts == {i} \cup {j + 1 : j \in {x \in i..Len(data) : data[x] = 10}}
        stop   == Min({c \in starts : parse_header_line(data, c).st # "header"})
        lines  == {c \in starts : c < stop}
        nth(n) == CHOOSE c \in lines : Cardinality({d \in lines : d <= c}) = n
        last_  == parse_header_line(data, stop)
    IN
    IF Cardinality(lines) > MAX_HEADERS THEN PError
    ELSE IF /\ Cardinality(lines) = MAX_HEADERS
            /\ stop <= Len(data)
            /\ is_header_name_token(data[stop]) THEN PError
    ELSE IF last_.st = "Partial" THEN PPartial
    ELSE IF last_.st = "Error" THEN PError
    ELSE PComplete(code,
            [n \in 1..Cardinality(lines) |-> parse_header_line(data, nth(n)).h])

\* The rest of the status line after the three digits, then the headers.
parse_after_code(data, i, code) ==
    IF i > Len(data) THEN PPartial
    ELSE IF data[i] = 32 THEN
        LET S == {j \in (i + 1)..Len(data) : ~is_reason_token(data[j])}
            m == IF S = {} THEN Len(data) + 1 ELSE Min(S)
        IN  IF m > Len(data) THEN PPartial
            ELSE IF data[m] = 13 THEN
                (IF m + 1 > Len(data) THEN PPartial
                 ELSE IF data[m + 1] = 10 THEN parse_headers(data, m + 2, code)
                 ELSE PError)
            ELSE IF data[m] = 10 THEN parse_headers(data, m + 1, code)
            ELSE PError
    ELSE IF data[i] = 13 THEN
        (IF i + 1 > Len(data) THEN PPartial
         ELSE IF data[i + 1] = 10 THEN parse_headers(data, i + 2, code)
         ELSE PError)
    ELSE IF data[i] = 10 THEN parse_headers(data, i + 1, code)
    ELSE PError

\* parse_code: three digits
parse_code(data, i) ==
    LET have == Len(data) - i + 1 IN
    IF \E k \in 0..2 : k < have /\ ~IsDigit(data[i + k]) THEN PError
    ELSE IF have < 3 THEN PPartial
    ELSE parse_after_code(data, i + 3,
            100 * (data[i] - 48) + 10 * (data[i + 1] - 48) + (data[i + 2] - 48))

\* response.parse(data)
response_parse(data) ==
    LET s == skip_empty_lines(data, 1) IN
    IF s.st = "Partial" THEN PPartial
    ELSE IF s.st = "Error" THEN PError
    ELSE
      LET v == parse_version(data, s.pos) IN
      IF v.st = "Partial" THEN PPartial
      ELSE IF v.st = "Error" THEN PError
      ELSE IF v.pos > Len(data) THEN PPartial
      ELSE IF data[v.pos] # 32 THEN PError
      ELSE parse_code(data, v.pos + 1)

(***************************************************************************)
(* The terminator search of read_response.                                 *)
(***************************************************************************)
\* finder.find(&hdr[scan_pos..]).is_some(); scan_pos is a 0-based offset
finder_find(haystack, scan_pos) ==
    \E i \in (scan_pos + 1)..(Len(haystack) - 3) :
        \A k \in 1..Len(TERMINATOR) : haystack[i + k - 1] = TERMINATOR[k]

\* hdr.len().saturating_sub(3)
\* Faulty variant of saturating_sub: nothing is subtracted, so the search
\* resumes at the previous end of the buffer.
saturating_sub_nothing(a, b) == a

saturating_sub(a, b) == IF a >= b THEN a - b ELSE 0

\* Faulty variant of exceeds_cap: the ceiling is twice as high.
exceeds_cap_doubled(len) == len > 2 * MAX_HEADER_BYTES

\* Faulty variant of exceeds_cap: the cap is not enforced.
exceeds_cap_never(len) == len < 0

\* hdr.len() > 16 * 1024
exceeds_cap(len) == len > MAX_HEADER_BYTES

(***************************************************************************)
(* The checks of read_response on the accumulated bytes, in source order.  *)
(* The result is "Ok" or the name of the UpgradeErr variant.               *)
(***************************************************************************)
\* Faulty variant of check_accept: the accept value is not compared.
check_accept_unchecked(headers, expected_accept) ==
    IF find_header(headers, NAME_ACCEPT).some THEN "Ok" ELSE "Headers"

\* Faulty variant of check_accept: the bytes are compared without the
\* from_utf8 step.
check_accept_bytewise(headers, expected_accept) ==
    LET accept == find_header(headers, NAME_ACCEPT) IN
    IF ~accept.some THEN "Headers"
    ELSE IF accept.value # expected_accept THEN "Accept"
    ELSE "Ok"

check_accept(headers, expected_accept) ==
    LET accept == find_header(headers, NAME_ACCEPT) IN
    IF ~accept.some THEN "Headers"
    ELSE IF ~from_utf8_ok(accept.value) THEN "Utf8"
    ELSE IF accept.value # expected_accept THEN "Accept"
    ELSE "Ok"

check_upgrade(headers, expected_accept) ==
    LET upgrade == find_header(headers, NAME_UPGRADE) IN
    IF ~upgrade.some THEN "Headers"
    ELSE LET r == value_eq_ascii(upgrade.value, TOKEN_WEBSOCKET) IN
         IF ~r.ok THEN "Utf8"
         ELSE IF ~r.val THEN "Headers"
         ELSE check_accept(headers, expected_accept)

check_connection(headers, expected_accept) ==
    LET connection == find_header(headers, NAME_CONNECTION) IN
    IF ~connection.some THEN "Headers"
    ELSE LET r == header_has_token(connection.value, TOKEN_UPGRADE) IN
         IF ~r.ok THEN "Utf8"
         ELSE IF ~r.val THEN "Headers"
         ELSE check_upgrade(headers, expected_accept)

\* Faulty variant of check_status: the status code is not looked at.
check_status_unchecked(response, expected_accept) ==
    check_connection(response.headers, expected_accept)

check_status(response, expected_accept) ==
    IF response.code # SWITCHING_PROTOCOLS THEN "Status"
    ELSE check_connection(response.headers, expected_accept)

\* lines 154-186: parse, then the match on the status
validate_response(hdr, expected_accept) ==
    LET response == response_parse(hdr) IN
    IF response.kind = "Complete" THEN check_status(response, expected_accept)
    ELSE "Headers"

(***************************************************************************)
(* url.rs: parse_ws_or_wss.  The result is a record                        *)
(*   [ok, err, scheme, host, port, path_and_query]                         *)
(* with err "Scheme" or "Port" when ok is FALSE.                           *)
(***************************************************************************)
UrlErr(e) ==
    [ok |-> FALSE, err |-> e, scheme |-> "none", host |-> << >>, port |-> 0,
     path_and_query |-> << >>]

UrlOk(s, h, p, pq) ==
    [ok |-> TRUE, err |-> "none", scheme |-> s, host |-> h, port |-> p,
     path_and_query |-> pq]

\* Value of a string of decimal digits, -1 once it exceeds max.
RECURSIVE DigitsValue(_, _, _)
DigitsValue(d, acc, max) ==
    IF d = << >> THEN acc
    ELSE LET next == acc * 10 + (Head(d) - 48) IN
         IF next > max THEN -1 ELSE DigitsValue(Tail(d), next, max)

\* Faulty variant of parse_u16: the value is reduced modulo 2^16.
parse_u16_wrapping(p) ==
    LET digits == IF Len(p) > 1 /\ p[1] = 43 THEN Tail(p) ELSE p IN
    IF digits = << >> THEN -1
    ELSE IF \E i \in 1..Len(digits) : ~IsDigit(digits[i]) THEN -1
    ELSE LET v == DigitsValue(digits, 0, U16_MAX + 1) IN
         IF v < 0 THEN -1 ELSE v % (U16_MAX + 1)

\* p.parse::<u16>(): an optional '+', then one digit or more, at most
\* u16::MAX; -1 is Err.
parse_u16(p) ==
    LET digits == IF Len(p) > 1 /\ p[1] = 43 THEN Tail(p) ELSE p IN
    IF digits = << >> THEN -1
    ELSE IF \E i \in 1..Len(digits) : ~IsDigit(digits[i]) THEN -1
    ELSE DigitsValue(digits, 0, U16_MAX)

\* Faulty variant of strip_scheme: the prefixes are matched in any letter
\* case.
strip_scheme_any_case(input) ==
    IF Len(input) >= Len(PREFIX_WSS)
       /\ eq_ignore_ascii_case(SubSeq(input, 1, Len(PREFIX_WSS)), PREFIX_WSS)
    THEN [scheme |-> "Wss", rest |-> Tail_(input, Len(PREFIX_WSS) + 1)]
    ELSE IF Len(input) >= Len(PREFIX_WS)
            /\ eq_ignore_ascii_case(SubSeq(input, 1, Len(PREFIX_WS)), PREFIX_WS)
    THEN [scheme |-> "Ws", rest |-> Tail_(input, Len(PREFIX_WS) + 1)]
    ELSE [scheme |-> "none", rest |-> << >>]

\* input.strip_prefix("wss://"), else input.strip_prefix("ws://")
strip_scheme(input) ==
    IF StartsWith(input, PREFIX_WSS)
    THEN [scheme |-> "Wss", rest |-> Tail_(input, Len(PREFIX_WSS) + 1)]
    ELSE IF StartsWith(input, PREFIX_WS)
    THEN [scheme |-> "Ws", rest |-> Tail_(input, Len(PREFIX_WS) + 1)]
    ELSE [scheme |-> "none", rest |-> << >>]

default_port(scheme) == IF scheme = "Ws" THEN DEFAULT_PORT_WS ELSE DEFAULT_PORT_WSS

\* Faulty variant of split_path: the split is at the last '/'.
split_path_last(rest) ==
    LET slashes == {i \in 1..Len(rest) : rest[i] = 47} IN
    IF slashes = {} THEN [host_port |-> rest, path_and_query |-> <<47>>]
    ELSE [host_port      |-> Slice(rest, 1, Max(slashes) - 1),
          path_and_query |-> Tail_(rest, Max(slashes))]

\* lines 32-35: match rest.find('/')
split_path(rest) ==
    LET slashes == {i \in 1..Len(rest) : rest[i] = 47} IN
    IF slashes = {} THEN [host_port |-> rest, path_and_query |-> <<47>>]
    ELSE [host_port      |-> Slice(rest, 1, Min(slashes) - 1),
          path_and_query |-> Tail_(rest, Min(slashes))]

parse_ws_or_wss(input) ==
    LET sr == strip_scheme(input) IN
    IF sr.scheme = "none" THEN UrlErr("Scheme")
    ELSE
      LET host_port == split_path(sr.rest).host_port
          path      == split_path(sr.rest).path_and_query
          colons    == {i \in 1..Len(host_port) : host_port[i] = 58}
      IN
      IF colons = {} THEN UrlOk(sr.scheme, host_port, default_port(sr.scheme), path)
      ELSE
        LET c    == Max(colons)
            port == parse_u16(Tail_(host_port, c + 1))
        IN  IF port < 0 THEN UrlErr("Port")
            ELSE UrlOk(sr.scheme, Slice(host_port, 1, c - 1), port, path)

(***************************************************************************)
(* http_upgrade.rs: write_request.  usize is an unsigned integer of        *)
(* UsizeBits bits; checked_add gives -1 for None.                          *)
(***************************************************************************)
UsizeBits == 16

USIZE_MAX == 2 ^ UsizeBits - 1

\* no str or slice is longer than isize::MAX bytes
ISIZE_MAX == USIZE_MAX \div 2

\* inline capacity of SmallVec::<[u8; 512]>
SMALLVEC_INLINE == 512

checked_add(a, b) == IF a < 0 \/ a + b > USIZE_MAX THEN -1 ELSE a + b

\* the try_fold over the extra headers
RECURSIVE extra_headers_len(_, _)
extra_headers_len(extra, acc) ==
    IF acc < 0 \/ extra = << >> THEN acc
    ELSE extra_headers_len(Tail(extra),
            checked_add(checked_add(checked_add(checked_add(acc,
                Len(Head(extra).name)), Len(HEADER_SEPARATOR)),
                Len(Head(extra).value)), Len(CRLF)))

\* The sum of lines 80-87 in unbounded arithmetic.
base_len_sum(host, path_and_query, sec_websocket_key) ==
    Len(REQUEST_PREFIX) + Len(path_and_query) + Len(REQUEST_SUFFIX) + Len(host)
    + Len(UPGRADE_HEADERS) + Len(sec_websocket_key) + Len(CRLF) + Len(CRLF)

\* The `+` of lines 80-87 on usize: when the sum does not fit, a build with
\* overflow checks panics and a build without them wraps.
BaseLenOutcomes(host, path_and_query, sec_websocket_key) ==
    IF base_len_sum(host, path_and_query, sec_websocket_key) > USIZE_MAX
    THEN {"panic", "wrap"}
    ELSE {"ok"}

\* base_len where the build does not panic
base_len(host, path_and_query, sec_websocket_key) ==
    base_len_sum(host, path_and_query, sec_websocket_key) % (USIZE_MAX + 1)

RECURSIVE extra_headers_sum(_)
extra_headers_sum(extra) ==
    IF extra = << >> THEN 0
    ELSE Len(Head(extra).name) + Len(HEADER_SEPARATOR) + Len(Head(extra).value)
            + Len(CRLF) + extra_headers_sum(Tail(extra))

\* Faulty variant of total_len: wrapping additions in place of checked_add.
total_len_wrapping(host, path_and_query, sec_websocket_key, extra) ==
    (base_len_sum(host, path_and_query, sec_websocket_key) + extra_headers_sum(extra))
        % (USIZE_MAX + 1)

\* total_len, -1 when one of the two checked computations gives None
total_len(host, path_and_query, sec_websocket_key, extra) ==
    LET e == extra_headers_len(extra, 0) IN
    IF e < 0 THEN -1
    ELSE checked_add(base_len(host, path_and_query, sec_websocket_key), e)

RECURSIVE extra_header_lines(_)
extra_header_lines(extra) ==
    IF extra = << >> THEN << >>
    ELSE Head(extra).name \o HEADER_SEPARATOR \o Head(extra).value \o CRLF
            \o extra_header_lines(Tail(extra))

\* Faulty variant of request_buffer: the terminating CRLF is missing.
request_buffer_unterminated(host, path_and_query, sec_websocket_key, extra) ==
    REQUEST_PREFIX \o path_and_query \o REQUEST_SUFFIX \o host \o UPGRADE_HEADERS
        \o sec_websocket_key \o CRLF \o extra_header_lines(extra)

\* the buffer assembled by lines 104-119
\* Faulty variant of request_buffer: the nonce of an earlier attempt is
\* written instead of the key passed in.
request_buffer_stale_key(host, path_and_query, sec_websocket_key, extra) ==
    REQUEST_PREFIX \o path_and_query \o REQUEST_SUFFIX \o host \o UPGRADE_HEADERS
        \o <<100, 71, 104, 108, 73, 72, 78, 104, 98, 88, 66, 115, 90, 83, 66, 117, 98, 50, 53, 106, 90, 81, 61, 61>>
        \o CRLF \o extra_header_lines(extra) \o CRLF

request_buffer(host, path_and_query, sec_websocket_key, extra) ==
    REQUEST_PREFIX \o path_and_query \o REQUEST_SUFFIX \o host \o UPGRADE_HEADERS
        \o sec_websocket_key \o CRLF \o extra_header_lines(extra) \o CRLF

(***************************************************************************)
(* http_upgrade.rs: generate_client_key.  The random draw picks one of the *)
(* keys below; each is the base64 text of 16 bytes with the accept value   *)
(* base64(SHA1(key ++ WS_GUID)).                                           *)
(***************************************************************************)
\* "dGhlIHNhbXBsZSBub25jZQ==" -> "s3pPLMBiTxaQ9kYGzzhZRbK+xOo="
KEY_SAMPLE ==
    [sec_websocket_key |-> <<100, 71, 104, 108, 73, 72, 78, 104, 98, 88, 66, 115, 90, 83, 66, 117, 98, 50, 53, 106, 90, 81, 61, 61>>,
     expected_accept   |-> <<115, 51, 112, 80, 76, 77, 66, 105, 84, 120, 97, 81, 57, 107, 89, 71, 122, 122, 104, 90, 82, 98, 75, 43, 120, 79, 111, 61>>]

\* "AAECAwQFBgcICQoLDA0ODw==" -> "Bz3qJYTGdOe8gUSpLosEdiLKDrk="
KEY_COUNTING ==
    [sec_websocket_key |-> <<65, 65, 69, 67, 65, 119, 81, 70, 66, 103, 99, 73, 67, 81, 111, 76, 68, 65, 48, 79, 68, 119, 61, 61>>,
     expected_accept   |-> <<66, 122, 51, 113, 74, 89, 84, 71, 100, 79, 101, 56, 103, 85, 83, 112, 76, 111, 115, 69, 100, 105, 76, 75, 68, 114, 107, 61>>]

ClientKeys == {KEY_SAMPLE, KEY_COUNTING}

NoKey == [sec_websocket_key |-> << >>, expected_accept |-> << >>]

(***************************************************************************)
(* generate_client_key step by step: base64 (STANDARD engine, with         *)
(* padding) and SHA-1 (FIPS 180-4) as the base64 and sha1 crates compute   *)
(* them.  A 32-bit word is the pair <<high 16 bits, low 16 bits>>.         *)
(***************************************************************************)
\* "258EAFA5-E914-47DA-95CA-C5AB0DC85B11"
WS_GUID == <<50, 53, 56, 69, 65, 70, 65, 53, 45, 69, 57, 49, 52, 45, 52, 55, 68, 65, 45, 57, 53, 67, 65, 45, 67, 53, 65, 66, 48, 68, 67, 56, 53, 66, 49, 49>>

\* A-Z a-z 0-9 + /
BASE64_ALPHABET ==
    [i \in 1..64 |-> IF i <= 26 THEN 64 + i
                     ELSE IF i <= 52 THEN 70 + i
                     ELSE IF i <= 62 THEN i - 5
                     ELSE IF i = 63 THEN 43 ELSE 47]

\* b64.encode(bytes)
base64_encode(bytes) ==
    LET n == Len(bytes)
        at(i) == IF i <= n THEN bytes[i] ELSE 0
        sextet(g, j) ==
            CASE j = 0 -> at(3 * g + 1) \div 4
              [] j = 1 -> ((at(3 * g + 1) % 4) * 16) + (at(3 * g + 2) \div 16)
              [] j = 2 -> ((at(3 * g + 2) % 16) * 4) + (at(3 * g + 3) \div 64)
              [] j = 3 -> at(3 * g + 3) % 64
        char(k) ==
            LET g == (k - 1) \div 4
                j == (k - 1) % 4
            IN  IF (j = 2 /\ 3 * g + 2 > n) \/ (j = 3 /\ 3 * g + 3 > n) THEN 61
                ELSE BASE64_ALPHABET[sextet(g, j) + 1]
    IN  [k \in 1..(4 * ((n + 2) \div 3)) |-> char(k)]

Bit(a, i) == (a \div (2 ^ i)) % 2

\* a 16-bit value from the bits of a and b combined by op
Bits16(op(_, _), a, b) ==
    1 * op(Bit(a, 0), Bit(b, 0)) + 2 * op(Bit(a, 1), Bit(b, 1))
    + 4 * op(Bit(a, 2), Bit(b, 2)) + 8 * op(Bit(a, 3), Bit(b, 3))
    + 16 * op(Bit(a, 4), Bit(b, 4)) + 32 * op(Bit(a, 5), Bit(b, 5))
    + 64 * op(Bit(a, 6), Bit(b, 6)) + 128 * op(Bit(a, 7), Bit(b, 7))
    + 256 * op(Bit(a, 8), Bit(b, 8)) + 512 * op(Bit(a, 9), Bit(b, 9))
    + 1024 * op(Bit(a, 10), Bit(b, 10)) + 2048 * op(Bit(a, 11), Bit(b, 11))
    + 4096 * op(Bit(a, 12), Bit(b, 12)) + 8192 * op(Bit(a, 13), Bit(b, 13))
    + 16384 * op(Bit(a, 14), Bit(b, 14)) + 32768 * op(Bit(a, 15), Bit(b, 15))

bit_xor(x, y) == (x + y) % 2
bit_and(x, y) == x * y
bit_or(x, y) == x + y - x * y

word_xor(a, b) == <<Bits16(bit_xor, a[1], b[1]), Bits16(bit_xor, a[2], b[2])>>
word_and(a, b) == <<Bits16(bit_and, a[1], b[1]), Bits16(bit_and, a[2], b[2])>>
word_or(a, b) == <<Bits16(bit_or, a[1], b[1]), Bits16(bit_or, a[2], b[2])>>
word_not(a) == <<65535 - a[1], 65535 - a[2]>>

\* wrapping_add
word_add(a, b) ==
    LET lo == a[2] + b[2]
        hi == a[1] + b[1] + (lo \div 65536)
    IN  <<hi % 65536, lo % 65536>>

\* rotate_left(n), 0 <= n < 32
rotate_left(a, n) ==
    LET x == IF n >= 16 THEN <<a[2], a[1]>> ELSE a
        k == n % 16
    IN  <<((x[1] * (2 ^ k)) % 65536) + (x[2] \div (2 ^ (16 - k))),
          ((x[2] * (2 ^ k)) % 65536) + (x[1] \div (2 ^ (16 - k)))>>

\* 0x67452301, 0xEFCDAB89, 0x98BADCFE, 0x10325476, 0xC3D2E1F0
SHA1_H0 == <<<<26437, 8961>>, <<61389, 43913>>, <<39098, 56574>>, <<4146, 21622>>, <<50130, 57840>>>>

\* 0x5A827999, 0x6ED9EBA1, 0x8F1BBCDC, 0xCA62C1D6
SHA1_K == <<<<23170, 31129>>, <<28377, 60321>>, <<36635, 48348>>, <<51810, 49622>>>>

\* the message with the bit 1, zeros up to 56 bytes modulo 64, and its
\* length in bits as 8 bytes, most significant first
sha1_pad(msg) ==
    LET n     == Len(msg)
        zeros == (119 - (n % 64)) % 64
        bits  == 8 * n
        len8  == [k \in 1..8 |-> IF k <= 4 THEN 0 ELSE (bits \div (256 ^ (8 - k))) % 256]
    IN  msg \o <<128>> \o [i \in 1..zeros |-> 0] \o len8

\* word i (0..15) of block blk (0, 1, ...) of the padded message
sha1_block_word(padded, blk, i) ==
    LET o == 64 * blk + 4 * i IN
    <<padded[o + 1] * 256 + padded[o + 2], padded[o + 3] * 256 + padded[o + 4]>>

\* word t of the message schedule, w holding the words 0..t-1
sha1_schedule(w, t) ==
    rotate_left(word_xor(word_xor(w[t - 2], w[t - 7]), word_xor(w[t - 13], w[t - 15])), 1)

sha1_f(t, b, c, d) ==
    IF t < 20 THEN word_or(word_and(b, c), word_and(word_not(b), d))
    ELSE IF t < 40 THEN word_xor(word_xor(b, c), d)
    ELSE IF t < 60 THEN word_or(word_or(word_and(b, c), word_and(b, d)), word_and(c, d))
    ELSE word_xor(word_xor(b, c), d)

\* round t on the working variables v = <<a, b, c, d, e>> with schedule
\* word wt
sha1_round(v, t, wt) ==
    LET temp == word_add(word_add(word_add(word_add(rotate_left(v[1], 5),
                    sha1_f(t, v[2], v[3], v[4])), v[5]), SHA1_K[(t \div 20) + 1]), wt)
    IN  <<temp, v[1], rotate_left(v[2], 30), v[3], v[4]>>

\* the 20 bytes of the state, each word most significant byte first
sha1_digest(h) ==
    [i \in 1..20 |->
        LET word == h[((i - 1) \div 4) + 1]
            half == word[(((i - 1) % 4) \div 2) + 1]
        IN  IF (i - 1) % 2 = 0 THEN half \div 256 ELSE half % 256]

\* Faulty variant of accept_input: the GUID comes first.
accept_input_guid_first(sec_websocket_key) == WS_GUID \o sec_websocket_key

\* lines 41-42: what the two sha1.update calls feed the hash
accept_input(sec_websocket_key) == sec_websocket_key \o WS_GUID

\* 16 bytes 0x00: "AAAAAAAAAAAAAAAAAAAAAA==" -> "ICX+Yqv66kxgM0FcWaLWlFLwTAI="
KEY_ZEROS ==
    [sec_websocket_key |-> <<65, 65, 65, 65, 65, 65, 65, 65, 65, 65, 65, 65, 65, 65, 65, 65, 65, 65, 65, 65, 65, 65, 61, 61>>,
     expected_accept   |-> <<73, 67, 88, 43, 89, 113, 118, 54, 54, 107, 120, 103, 77, 48, 70, 99, 87, 97, 76, 87, 108, 70, 76, 119, 84, 65, 73, 61>>]

\* 16 bytes 0xFF: "/////////////////////w==" -> "XXpj4jYzLM2yUE0C7TIgMwTQh2g="
KEY_ONES ==
    [sec_websocket_key |-> <<47, 47, 47, 47, 47, 47, 47, 47, 47, 47, 47, 47, 47, 47, 47, 47, 47, 47, 47, 47, 47, 119, 61, 61>>,
     expected_accept   |-> <<88, 88, 112, 106, 52, 106, 89, 122, 76, 77, 50, 121, 85, 69, 48, 67, 55, 84, 73, 103, 77, 119, 84, 81, 104, 50, 103, 61>>]

\* 'the sample nonce'
BYTES_SAMPLE == <<116, 104, 101, 32, 115, 97, 109, 112, 108, 101, 32, 110, 111, 110, 99, 101>>

BYTES_COUNTING == [i \in 1..16 |-> i - 1]

BYTES_ZEROS == [i \in 1..16 |-> 0]

BYTES_ONES == [i \in 1..16 |-> 255]

(***************************************************************************)
(* Inputs: URLs, extra headers, and the byte streams a peer may send.      *)
(***************************************************************************)
\* 'HTTP/1.1 101 Switching Protocols'
STATUS_101 == <<72, 84, 84, 80, 47, 49, 46, 49, 32, 49, 48, 49, 32, 83, 119, 105, 116, 99, 104, 105, 110, 103, 32, 80, 114, 111, 116, 111, 99, 111, 108, 115>>
\* 'HTTP/1.1 101'
STATUS_101_BARE == <<72, 84, 84, 80, 47, 49, 46, 49, 32, 49, 48, 49>>
\* 'HTTP/1.1 200 OK'
STATUS_200 == <<72, 84, 84, 80, 47, 49, 46, 49, 32, 50, 48, 48, 32, 79, 75>>
\* 'HTTP/2 101 Switching Protocols'
STATUS_BAD_VERSION == <<72, 84, 84, 80, 47, 50, 32, 49, 48, 49, 32, 83, 119, 105, 116, 99, 104, 105, 110, 103, 32, 80, 114, 111, 116, 111, 99, 111, 108, 115>>
\* 'connection'
NAME_CONNECTION_LOWER == <<99, 111, 110, 110, 101, 99, 116, 105, 111, 110>>
\* 'UPGRADE'
NAME_UPGRADE_UPPER == <<85, 80, 71, 82, 65, 68, 69>>
\* 'sec-websocket-accept'
NAME_ACCEPT_LOWER == <<115, 101, 99, 45, 119, 101, 98, 115, 111, 99, 107, 101, 116, 45, 97, 99, 99, 101, 112, 116>>
\* 'Server'
NAME_SERVER == <<83, 101, 114, 118, 101, 114>>
\* 'X-Pad'
NAME_PAD == <<88, 45, 80, 97, 100>>
\* 'Upgrade'
VAL_UPGRADE == <<85, 112, 103, 114, 97, 100, 101>>
\* 'UPGRADE'
VAL_UPGRADE_UPPER == <<85, 80, 71, 82, 65, 68, 69>>
\* 'keep-alive, Upgrade'
VAL_KEEPALIVE_UPGRADE == <<107, 101, 101, 112, 45, 97, 108, 105, 118, 101, 44, 32, 85, 112, 103, 114, 97, 100, 101>>
\* 'Upgrade\t,keep-alive'
VAL_UPGRADE_TAB_LIST == <<85, 112, 103, 114, 97, 100, 101, 9, 44, 107, 101, 101, 112, 45, 97, 108, 105, 118, 101>>
\* 'keep-alive'
VAL_KEEPALIVE == <<107, 101, 101, 112, 45, 97, 108, 105, 118, 101>>
\* 'upgraded'
VAL_UPGRADED == <<117, 112, 103, 114, 97, 100, 101, 100>>
\* 'upgradeÂ\xa0'
VAL_UPGRADE_NBSP == <<117, 112, 103, 114, 97, 100, 101, 194, 160>>
\* 'Upgrade, ÿ'
VAL_UPGRADE_BAD_UTF8 == <<85, 112, 103, 114, 97, 100, 101, 44, 32, 255>>
\* 'websocket'
VAL_WEBSOCKET == <<119, 101, 98, 115, 111, 99, 107, 101, 116>>
\* 'WebSocket'
VAL_WEBSOCKET_MIXED == <<87, 101, 98, 83, 111, 99, 107, 101, 116>>
\* 'chunked'
VAL_CHUNKED == <<99, 104, 117, 110, 107, 101, 100>>
\* 'websocket, x'
VAL_WEBSOCKET_LIST == <<119, 101, 98, 115, 111, 99, 107, 101, 116, 44, 32, 120>>
\* 'websocketÿ'
VAL_WEBSOCKET_BAD_UTF8 == <<119, 101, 98, 115, 111, 99, 107, 101, 116, 255>>
\* 'AAAAAAAAAAAAAAAAAAAAAAAAAAA='
VAL_ACCEPT_WRONG == <<65, 65, 65, 65, 65, 65, 65, 65, 65, 65, 65, 65, 65, 65, 65, 65, 65, 65, 65, 65, 65, 65, 65, 65, 65, 65, 65, 61>>
\* 'þs3pPLMBiTxaQ9kYGzzhZRbK+xOo='
VAL_ACCEPT_BAD_UTF8 == <<254, 115, 51, 112, 80, 76, 77, 66, 105, 84, 120, 97, 81, 57, 107, 89, 71, 122, 122, 104, 90, 82, 98, 75, 43, 120, 79, 111, 61>>
\* 'x'
VAL_SERVER == <<120>>
\* b'\x81\x02hi'
FRAME_TEXT_HI == <<129, 2, 104, 105>>
\* 'ws://h/p?x=1'
URL_WS_PATH == <<119, 115, 58, 47, 47, 104, 47, 112, 63, 120, 61, 49>>
\* 'ws://h:8080/'
URL_WS_PORT == <<119, 115, 58, 47, 47, 104, 58, 56, 48, 56, 48, 47>>
\* 'wss://h'
URL_WSS == <<119, 115, 115, 58, 47, 47, 104>>
\* 'wss://h:8443/a:b'
URL_WSS_PORT_PATH == <<119, 115, 115, 58, 47, 47, 104, 58, 56, 52, 52, 51, 47, 97, 58, 98>>
\* 'http://x'
URL_HTTP == <<104, 116, 116, 112, 58, 47, 47, 120>>
\* 'ws://h:notaport/'
URL_BAD_PORT == <<119, 115, 58, 47, 47, 104, 58, 110, 111, 116, 97, 112, 111, 114, 116, 47>>
\* 'Origin'
HDR_ORIGIN == <<79, 114, 105, 103, 105, 110>>
\* 'http://o'
HDR_ORIGIN_V == <<104, 116, 116, 112, 58, 47, 47, 111>>
\* 'Authorization'
HDR_AUTH == <<65, 117, 116, 104, 111, 114, 105, 122, 97, 116, 105, 111, 110>>
\* 'Bearer t'
HDR_AUTH_V == <<66, 101, 97, 114, 101, 114, 32, 116>>

\* A header line of the peer.  echo = "echo" sends the accept value of the
\* key the client generated, "lower" sends it in lower case, "raw" sends
\* value as it stands.
H(n, v) == [name |-> n, value |-> v, echo |-> "raw"]

HEcho(n) == [name |-> n, value |-> << >>, echo |-> "echo"]

HEchoLower(n) == [name |-> n, value |-> << >>, echo |-> "lower"]

\* What a peer sends: lead bytes, a status line, pad filler bytes (in an
\* X-Pad header when there is a status line, bare otherwise), the header
\* lines, the blank line (complete), and the bytes after it.  cuts (offsets relative to the end of the blank line)
\* and seg (a segment size, 0 for none) are the places where a read of the
\* transport may stop short of a full chunk.
Peer(lead, status, headers, pad, complete, after, cuts, seg) ==
    [lead |-> lead, status |-> status, headers |-> headers, pad |-> pad,
     complete |-> complete, after |-> after, cuts |-> cuts, seg |-> seg]

PeerValue(h, key) ==
    IF h.echo = "echo" THEN key.expected_accept
    ELSE IF h.echo = "lower"
         THEN [i \in 1..Len(key.expected_accept) |->
                   to_ascii_lowercase(key.expected_accept[i])]
         ELSE h.value

RECURSIVE PeerLines(_, _)
PeerLines(hs, key) ==
    IF hs = << >> THEN << >>
    ELSE Head(hs).name \o HEADER_SEPARATOR \o PeerValue(Head(hs), key) \o CRLF
            \o PeerLines(Tail(hs), key)

\* The bytes up to and including the blank line.
PeerHead(peer, key) ==
    peer.lead
    \o (IF peer.status = << >> THEN << >> ELSE peer.status \o CRLF)
    \o (IF peer.pad = 0 THEN << >>
        ELSE IF peer.status = << >> THEN Repeat(65, peer.pad)
        ELSE NAME_PAD \o HEADER_SEPARATOR \o Repeat(65, peer.pad) \o CRLF)
    \o PeerLines(peer.headers, key)
    \o (IF peer.complete THEN CRLF ELSE << >>)

PeerStream(peer, key) == PeerHead(peer, key) \o peer.after

\* The stream offsets at which a read may stop.
CutPoints(peer, key) ==
    LET total == Len(PeerStream(peer, key)) IN
    {Len(PeerHead(peer, key)) + d : d \in peer.cuts}
    \cup (IF peer.seg > 0 THEN {k * peer.seg : k \in 1..(total \div peer.seg)} ELSE {})

\* The sizes n > 0 a read into the chunk may return after rpos bytes.  A
\* peer with seg < 0 sends 0 - seg bytes at a time and waits until they are
\* read, so that every read returns that many bytes (fewer at the end).
ReadSizes(peer, key, rpos) ==
    LET total  == Len(PeerStream(peer, key))
        maxEnd == IF rpos + CHUNK_SIZE < total THEN rpos + CHUNK_SIZE ELSE total
        pacedEnd == IF rpos - peer.seg < maxEnd THEN rpos - peer.seg ELSE maxEnd
    IN  IF peer.seg < 0 THEN {pacedEnd - rpos}
        ELSE {e - rpos :
                e \in {c \in CutPoints(peer, key) \cup {maxEnd} : c > rpos /\ c <= maxEnd}}

(***************************************************************************)
(* Bounds of the input sets.                                               *)
(***************************************************************************)
\* extra headers a caller passes
MaxExtraHeaders == 2
\* unrelated headers a peer mixes into the required ones
MaxUnrelated == 1
\* how far before the end of the blank line a read may stop
MaxCutBack == 4

Urls == {URL_WS_PATH, URL_WS_PORT, URL_WSS, URL_WSS_PORT_PATH, URL_HTTP, URL_BAD_PORT}

ExtraCatalog == {[name |-> HDR_ORIGIN, value |-> HDR_ORIGIN_V],
                 [name |-> HDR_AUTH, value |-> HDR_AUTH_V]}

ExtraHeaderLists == UNION {[1..n -> ExtraCatalog] : n \in 0..MaxExtraHeaders}

\* The response of the echo server of benches/perf.rs.
GoodHeaders ==
    <<H(NAME_CONNECTION, VAL_UPGRADE), H(NAME_UPGRADE, VAL_WEBSOCKET), HEcho(NAME_ACCEPT)>>

GoodPeer == Peer(<< >>, STATUS_101, GoodHeaders, 0, TRUE, << >>, {}, 0)

Scenario(url_, extra, peer_) == [url |-> url_, extra_headers |-> extra, peer |-> peer_]

RequestScenarios == {Scenario(x, e, GoodPeer) : x \in Urls, e \in ExtraHeaderLists}

\* Correct required headers in every order and letter case, with unrelated
\* headers between them.
Orderings(S) ==
    {f \in [1..Cardinality(S) -> S] : \A i, j \in 1..Cardinality(S) : f[i] = f[j] => i = j}

Unrelated(k) == {H(NAME_SERVER, Repeat(120, i)) : i \in 1..k}

ConnVariants ==
    {H(NAME_CONNECTION, VAL_KEEPALIVE_UPGRADE), H(NAME_CONNECTION_LOWER, VAL_UPGRADE_UPPER)}

UpgVariants ==
    {H(NAME_UPGRADE, VAL_WEBSOCKET), H(NAME_UPGRADE_UPPER, VAL_WEBSOCKET_MIXED)}

AccVariants == {HEcho(NAME_ACCEPT), HEcho(NAME_ACCEPT_LOWER)}

OrderPeers ==
    {Peer(<< >>, STATUS_101, o, 0, TRUE, << >>, {}, 0) :
        o \in UNION {Orderings({c, g, a} \cup Unrelated(k)) :
                        c \in ConnVariants, g \in UpgVariants, a \in AccVariants,
                        k \in 0..MaxUnrelated}}

\* Required headers in the usual order, each with a right or wrong value or
\* absent, under a 101 or a 200 status line.
Absent == [name |-> << >>, value |-> << >>, echo |-> "absent"]

Present(hs) == SelectSeq(hs, LAMBDA h : h.echo # "absent")

ConnChoices ==
    {H(NAME_CONNECTION, v) :
        v \in {VAL_UPGRADE, VAL_KEEPALIVE_UPGRADE, VAL_UPGRADE_TAB_LIST, VAL_KEEPALIVE,
               VAL_UPGRADED, VAL_UPGRADE_NBSP, VAL_UPGRADE_BAD_UTF8, << >>}} \cup {Absent}

UpgChoices ==
    {H(NAME_UPGRADE, v) :
        v \in {VAL_WEBSOCKET, VAL_WEBSOCKET_MIXED, VAL_CHUNKED, VAL_WEBSOCKET_LIST,
               VAL_WEBSOCKET_BAD_UTF8}} \cup {Absent}

AccChoices ==
    {HEcho(NAME_ACCEPT), HEchoLower(NAME_ACCEPT), H(NAME_ACCEPT, VAL_ACCEPT_WRONG),
     H(NAME_ACCEPT, VAL_ACCEPT_BAD_UTF8), Absent}

StatusChoices == {STATUS_101, STATUS_101_BARE, STATUS_200}

ValuePeers ==
    {Peer(<< >>, st, Present(<<c, g, a>>), 0, TRUE, << >>, {}, 0) :
        st \in StatusChoices, c \in ConnChoices, g \in UpgChoices, a \in AccChoices}

\* Responses the parser rejects or never sees the end of, and responses at
\* the limit of MAX_HEADERS headers.
ManyHeaders(k) == GoodHeaders \o [i \in 1..k |-> H(NAME_SERVER, VAL_SERVER)]

MalformedPeers ==
    {Peer(<< >>, STATUS_BAD_VERSION, GoodHeaders, 0, TRUE, << >>, {}, 0),
     Peer(<< >>, STATUS_101, GoodHeaders, 0, FALSE, << >>, {}, 0),
     Peer(<< >>, << >>, << >>, 0, FALSE, << >>, {}, 0),
     Peer(TERMINATOR, STATUS_101, GoodHeaders, 0, TRUE, << >>, {}, 0),
     Peer(TERMINATOR, STATUS_101, GoodHeaders, 0, TRUE, << >>, {}, Len(TERMINATOR))}
    \cup {Peer(<< >>, st, ManyHeaders(k), 0, TRUE, << >>, {}, 0) :
            st \in {STATUS_101, STATUS_200},
            k \in {MAX_HEADERS - Len(GoodHeaders), MAX_HEADERS - Len(GoodHeaders) + 1}}

\* A response delivered in pieces, with or without the first frame behind it.
CutOffsets == ((0 - MaxCutBack)..0) \cup {2}

DeliveryPeers ==
    {Peer(<< >>, st, GoodHeaders, 0, TRUE, after, cuts, 0) :
        st \in {STATUS_101, STATUS_200}, after \in {<< >>, FRAME_TEXT_HI},
        cuts \in SUBSET CutOffsets}

Scenarios ==
    RequestScenarios
    \cup {Scenario(URL_WS_PATH, << >>, p) :
            p \in OrderPeers \cup ValuePeers \cup MalformedPeers \cup DeliveryPeers}

\* Streams around the cap of MAX_HEADER_BYTES: filler without a blank line,
\* and responses whose X-Pad header puts the blank line near the cap.
PadFor(headLen) ==
    headLen - Len(PeerHead(GoodPeer, KEY_SAMPLE)) - Len(NAME_PAD \o HEADER_SEPARATOR \o CRLF)

\* a segment size of the peer that is not a divisor of CHUNK_SIZE
CapSegment == 5000

CapEnds ==
    {MAX_HEADER_BYTES - CHUNK_SIZE, MAX_HEADER_BYTES - 1, MAX_HEADER_BYTES,
     MAX_HEADER_BYTES + 1}

CapPeers ==
    {Peer(<< >>, << >>, << >>, n, FALSE, << >>, {}, 0) :
        n \in {MAX_HEADER_BYTES - 1, MAX_HEADER_BYTES, MAX_HEADER_BYTES + 1,
               MAX_HEADER_BYTES + 2 * CHUNK_SIZE}}
    \cup {Peer(<< >>, << >>, << >>, MAX_HEADER_BYTES + 2 * CHUNK_SIZE, FALSE, << >>, {},
               CapSegment)}
    \cup {Peer(<< >>, STATUS_101, GoodHeaders, PadFor(n), TRUE, after, {0}, 0) :
            n \in CapEnds, after \in {<< >>, FRAME_TEXT_HI}}
    \cup {Peer(<< >>, STATUS_101, GoodHeaders, PadFor(MAX_HEADER_BYTES), TRUE,
               FRAME_TEXT_HI, {0}, CapSegment)}

CapScenarios ==
    {Scenario(x, << >>, GoodPeer) : x \in Urls}
    \cup {Scenario(URL_WS_PORT, << >>, p) : p \in CapPeers}

(***************************************************************************)
(* One connect attempt: WsClient::connect_with_buffer_size.                *)
(***************************************************************************)
VARIABLES
    pc,               \* the step connect_with_buffer_size is about to run
    url,              \* argument url
    extra_headers,    \* argument extra_headers
    peer,             \* what the peer sends on the connection
    u,                \* the parsed WsUrl
    stream,           \* the AnyStream: its variant and the TCP_NODELAY flag
    connector_inits,  \* times the body of GLOBAL_CONNECTOR.get_or_init ran
    key,              \* the ClientKey
    keys_generated,   \* calls of generate_client_key
    written,          \* bytes handed to the transport by write_all
    writes,           \* calls of write_all
    flushes,          \* calls of flush
    flushed,          \* bytes of written that a successful flush has pushed out
    rpos,             \* bytes of the peer's stream the transport has returned
    hdr,              \* read_response: the accumulated buffer
    scan_pos,         \* read_response: where the next search starts
    nreads,           \* calls of stream.read
    last_read,        \* what the last stream.read returned: "none", "error", "eof", "data"
    ws,               \* the WebSocket built by after_handshake
    result,           \* "none" while running, "Ok", or the error returned
    last,             \* the step that ran last
    once,             \* GLOBAL_CONNECTOR: the state of its Once
    connector,        \* GLOBAL_CONNECTOR: the value stored, 0 while there is none
    caller_pc,        \* per caller of default_connector: where it is
    caller_got,       \* per caller: the connector its last call returned, 0 for none
    caller_calls,     \* per caller: calls of default_connector it has started
    keygen            \* generate_client_key: its position and its locals

vars == <<pc, url, extra_headers, peer, u, stream, connector_inits, key, keys_generated,
          written, writes, flushes, flushed, rpos, hdr, scan_pos, nreads, last_read, ws,
          result, last, once, connector, caller_pc, caller_got, caller_calls, keygen>>

\* the variables of tls.rs
tls_vars == <<once, connector, caller_pc, caller_got, caller_calls>>

\* callers of default_connector other than the connect attempt, and the
\* calls each of them makes
NumCallers == 4
MaxCalls == 2

Callers == 1..NumCallers

\* the process before anything has called default_connector
InitTlsVars ==
    /\ once = "Incomplete"
    /\ connector = 0
    /\ caller_pc = [t \in Callers |-> "idle"]
    /\ caller_got = [t \in Callers |-> 0]
    /\ caller_calls = [t \in Callers |-> 0]

\* generate_client_key before it has run: line 36, let mut key_bytes = [0u8; 16]
KeygenStart ==
    [pc |-> "fill", key_bytes |-> [i \in 1..16 |-> 0], sec_websocket_key |-> << >>,
     input |-> << >>, padded |-> << >>, block |-> 0, t |-> 0, h |-> << >>, v |-> << >>,
     w |-> << >>, expected_accept |-> << >>]

NoUrl == UrlErr("none")

NoStream == [kind |-> "none", nodelay |-> FALSE]

NoWs == [built |-> FALSE, role |-> "none", auto_close |-> FALSE, auto_pong |-> FALSE,
         writev |-> FALSE, stream |-> "none", read_buffer |-> << >>]

InitWith(sc) ==
    /\ pc = "parse_url"
    /\ url = sc.url
    /\ extra_headers = sc.extra_headers
    /\ peer = sc.peer
    /\ u = NoUrl
    /\ stream = NoStream
    /\ connector_inits = 0
    /\ key = NoKey
    /\ keys_generated = 0
    /\ written = << >>
    /\ writes = 0
    /\ flushes = 0
    /\ flushed = 0
    /\ rpos = 0
    /\ hdr = << >>
    /\ scan_pos = 0
    /\ nreads = 0
    /\ last_read = "none"
    /\ ws = NoWs
    /\ result = "none"
    /\ last = "none"
    /\ InitTlsVars
    /\ keygen = KeygenStart

Init == \E sc \in Scenarios : InitWith(sc)

InitCap == \E sc \in CapScenarios : InitWith(sc)

\* Faulty variant of try: the error is recorded but the sequence goes on.
try_ignoring(ok, next) == next

\* The `?` operator: on Ok go on with the next step, on Err return.
try(ok, next) == IF ok THEN next ELSE "failed"

\* The error an Err(e)? returns from connect_with_buffer_size.
returned(ok, e) == IF ok THEN "none" ELSE e

\* line 106: let u = parse_ws_or_wss(url)?;
ParseUrl ==
    /\ pc = "parse_url"
    /\ LET r == parse_ws_or_wss(url) IN
        /\ u' = (IF r.ok THEN r ELSE u)
        /\ pc' = try(r.ok, "open_transport")
        /\ result' = returned(r.ok, r.err)
    /\ last' = "ParseUrl"
    /\ UNCHANGED <<url, extra_headers, peer, stream, connector_inits, key, keys_generated,
                   written, writes, flushes, flushed, rpos, hdr, scan_pos, nreads, last_read,
                   ws>>
    /\ UNCHANGED <<tls_vars, keygen>>

\* Faulty variant of once_acquirable: a caller that saw no value starts the
\* initialisation although another caller is running it.
once_acquirable_racy(state) == state # "Complete"

\* OnceLock::get_or_init runs the closure of the caller that finds the Once
\* Incomplete; a caller that finds it Running waits for it to complete.
once_acquirable(state) == state = "Incomplete"

\* The TlsConnector the n-th run of the closure builds: each run builds a
\* connector of its own.
new_connector(runs_before) == runs_before + 1

\* What opening the transport can end in: TcpStream::connect and
\* set_nodelay for ws://, connect_wss (TCP connect, server name, TLS
\* handshake) for wss://.
OpenOutcomes(scheme) ==
    IF scheme = "Ws" THEN {"ok", "Io", "Nodelay"} ELSE {"ok", "Io", "Dns", "Rustls"}

\* lines 109-129
OpenTransport ==
    /\ pc = "open_transport"
    /\ \E o \in OpenOutcomes(u.scheme) :
        /\ stream' = (IF o = "ok"
                      THEN [kind    |-> IF u.scheme = "Ws" THEN "Plain" ELSE "Tls",
                            nodelay |-> u.scheme = "Ws"]
                      ELSE stream)
        /\ pc' = try(o = "ok", "generate_key")
        /\ result' = returned(o = "ok", o)
    /\ IF u.scheme = "Wss" /\ once_acquirable(once)
       THEN /\ connector_inits' = connector_inits + 1
            /\ connector' = new_connector(connector_inits)
            /\ once' = "Complete"
       ELSE UNCHANGED <<connector_inits, connector, once>>
    /\ last' = "OpenTransport"
    /\ UNCHANGED <<url, extra_headers, peer, u, key, keys_generated, written, writes,
                   flushes, flushed, rpos, hdr, scan_pos, nreads, last_read, ws>>
    /\ UNCHANGED <<caller_pc, caller_got, caller_calls, keygen>>

\* line 132: let key = generate_client_key();
GenerateKey ==
    /\ pc = "generate_key"
    /\ \E k \in ClientKeys : key' = k
    /\ keys_generated' = keys_generated + 1
    /\ pc' = "write_request"
    /\ last' = "GenerateKey"
    /\ UNCHANGED <<url, extra_headers, peer, u, stream, connector_inits, written, writes,
                   flushes, flushed, rpos, hdr, scan_pos, nreads, last_read, ws, result>>
    /\ UNCHANGED <<tls_vars, keygen>>

\* try_reserve can only fail when the request does not fit the inline array.
ReserveOutcomes(len) == IF len > SMALLVEC_INLINE THEN {TRUE, FALSE} ELSE {TRUE}

\* Faulty variant of WriteAllTaken: a single write that may take only part
\* of the buffer and still return Ok.
WriteAllTaken_partial(buffer, ok) == {<< >>, SubSeq(buffer, 1, Len(buffer) \div 2)}

\* The bytes the transport has taken when write_all returns: all of the
\* buffer on Ok, a proper prefix of it on Err.
WriteAllTaken(buffer, ok) ==
    IF ok THEN {buffer} ELSE {<< >>, SubSeq(buffer, 1, Len(buffer) \div 2)}

\* lines 133-140, write_request up to and including write_all
WriteRequest ==
    /\ pc = "write_request"
    /\ LET len == total_len(u.host, u.path_and_query, key.sec_websocket_key, extra_headers)
           buffer == request_buffer(u.host, u.path_and_query, key.sec_websocket_key,
                                    extra_headers)
           base == IF extra_headers_len(extra_headers, 0) < 0 THEN {"ok"}
                   ELSE BaseLenOutcomes(u.host, u.path_and_query, key.sec_websocket_key)
       IN
        \E b \in base :
          IF b = "panic"
          THEN /\ pc' = "panicked"
               /\ UNCHANGED <<written, writes, result>>
          ELSE IF len < 0
          THEN /\ pc' = "failed"
               /\ result' = "Io"
               /\ UNCHANGED <<written, writes>>
          ELSE \E reserved \in ReserveOutcomes(len) :
                 IF ~reserved
                 THEN /\ pc' = "failed"
                      /\ result' = "Io"
                      /\ UNCHANGED <<written, writes>>
                 ELSE \E ok \in BOOLEAN :
                        /\ \E taken \in WriteAllTaken(buffer, ok) :
                              written' = written \o taken
                        /\ writes' = writes + 1
                        /\ pc' = try(ok, "flush")
                        /\ result' = returned(ok, "Io")
    /\ last' = "WriteRequest"
    /\ UNCHANGED <<url, extra_headers, peer, u, stream, connector_inits, key, keys_generated,
                   flushes, flushed, rpos, hdr, scan_pos, nreads, last_read, ws>>
    /\ UNCHANGED <<tls_vars, keygen>>

\* line 122: stream.flush().await?
FlushRequest ==
    /\ pc = "flush"
    /\ \E ok \in BOOLEAN :
        /\ flushes' = flushes + 1
        /\ flushed' = (IF ok THEN Len(written) ELSE flushed)
        /\ pc' = try(ok, "read_response")
        /\ result' = returned(ok, "Io")
    /\ last' = "FlushRequest"
    /\ UNCHANGED <<url, extra_headers, peer, u, stream, connector_inits, key, keys_generated,
                   written, writes, rpos, hdr, scan_pos, nreads, last_read, ws>>
    /\ UNCHANGED <<tls_vars, keygen>>

\* What one stream.read(&mut chunk) can return: an error, 0 at the end of
\* the peer's stream, or n > 0 bytes.
ReadOutcomes ==
    {[err |-> TRUE, n |-> 0]}
    \cup (IF rpos = Len(PeerStream(peer, key))
          THEN {[err |-> FALSE, n |-> 0]}
          ELSE {[err |-> FALSE, n |-> n] : n \in ReadSizes(peer, key, rpos)})

\* Faulty variant of after_read: a read of zero bytes ends the loop like a
\* found terminator would, and the unfinished response fails to parse.
after_read_eof_parsed(r, len) ==
    IF r.err THEN "Io"
    ELSE IF r.n = 0 THEN "Headers"
    ELSE IF exceeds_cap(len) THEN "Oversized"
    ELSE "none"

\* lines 143-151: what the iteration that made this read ends in; len is
\* hdr.len() after the extend_from_slice.  "none": the loop goes on.
after_read(r, len) ==
    IF r.err THEN "Io"
    ELSE IF r.n = 0 THEN "Eof"
    ELSE IF exceeds_cap(len) THEN "Oversized"
    ELSE "none"

ReadKind(r) == IF r.err THEN "error" ELSE IF r.n = 0 THEN "eof" ELSE "data"

\* lines 136-152: an iteration of the loop that does not find the terminator
ReadChunk ==
    /\ pc = "read_response"
    /\ ~finder_find(hdr, scan_pos)
    /\ scan_pos' = saturating_sub(Len(hdr), 3)
    /\ nreads' = nreads + 1
    /\ \E r \in ReadOutcomes :
        /\ last_read' = ReadKind(r)
        /\ hdr' = (IF r.err THEN hdr
                   ELSE hdr \o SubSeq(PeerStream(peer, key), rpos + 1, rpos + r.n))
        /\ rpos' = (IF r.err THEN rpos ELSE rpos + r.n)
        /\ result' = after_read(r, Len(hdr'))
        /\ pc' = try(result' = "none", "read_response")
    /\ last' = "ReadChunk"
    /\ UNCHANGED <<url, extra_headers, peer, u, stream, connector_inits, key, keys_generated,
                   written, writes, flushes, flushed, ws>>
    /\ UNCHANGED <<tls_vars, keygen>>

\* lines 137-139 and 154-186: the terminator is found, the response is
\* parsed and checked, and read_response returns
FinishResponse ==
    /\ pc = "read_response"
    /\ finder_find(hdr, scan_pos)
    /\ LET r == validate_response(hdr, key.expected_accept) IN
        /\ pc' = try(r = "Ok", "after_handshake")
        /\ result' = returned(r = "Ok", r)
    /\ last' = "FinishResponse"
    /\ UNCHANGED <<url, extra_headers, peer, u, stream, connector_inits, key, keys_generated,
                   written, writes, flushes, flushed, rpos, hdr, scan_pos, nreads, last_read,
                   ws>>
    /\ UNCHANGED <<tls_vars, keygen>>

\* Faulty variant of client_websocket: write gathering is left as
\* after_handshake sets it.
client_websocket_gathering(scheme, kind) ==
    [built |-> TRUE, role |-> "Client", auto_close |-> TRUE, auto_pong |-> TRUE,
     writev |-> TRUE, stream |-> kind, read_buffer |-> << >>]

\* lines 144-150: WebSocket::after_handshake(stream, Role::Client), which
\* starts with write gathering on and an empty read buffer, then the setters
client_websocket(scheme, kind) ==
    [built |-> TRUE, role |-> "Client", auto_close |-> TRUE, auto_pong |-> TRUE,
     writev |-> scheme # "Wss", stream |-> kind, read_buffer |-> << >>]

\* lines 144-152
AfterHandshake ==
    /\ pc = "after_handshake"
    /\ ws' = client_websocket(u.scheme, stream.kind)
    /\ result' = "Ok"
    /\ pc' = "done"
    /\ last' = "AfterHandshake"
    /\ UNCHANGED <<url, extra_headers, peer, u, stream, connector_inits, key, keys_generated,
                   written, writes, flushes, flushed, rpos, hdr, scan_pos, nreads, last_read>>
    /\ UNCHANGED <<tls_vars, keygen>>

Next ==
    \/ ParseUrl
    \/ OpenTransport
    \/ GenerateKey
    \/ WriteRequest
    \/ FlushRequest
    \/ ReadChunk
    \/ FinishResponse
    \/ AfterHandshake

Spec == Init /\ [][Next]_vars

SpecCap == InitCap /\ [][Next]_vars

(***************************************************************************)
(* write_request called on an open transport with arguments of any size a  *)
(* str can have: host and path_and_query short or ISIZE_MAX bytes long,    *)
(* extra headers short or with a value of ISIZE_MAX bytes.                 *)
(***************************************************************************)
LongText == Repeat(97, ISIZE_MAX)

WriteHosts == {<<104>>, LongText}

WritePaths == {<<47>>, <<47>> \o Tail(LongText)}

WriteExtraCatalog ==
    {[name |-> HDR_ORIGIN, value |-> HDR_ORIGIN_V], [name |-> NAME_PAD, value |-> LongText]}

WriteExtraLists == UNION {[1..n -> WriteExtraCatalog] : n \in 0..MaxExtraHeaders}

InitWrite ==
    \E h \in WriteHosts, p \in WritePaths, e \in WriteExtraLists, k \in ClientKeys :
        /\ pc = "write_request"
        /\ url = << >>
        /\ extra_headers = e
        /\ peer = GoodPeer
        /\ u = UrlOk("Ws", h, DEFAULT_PORT_WS, p)
        /\ stream = [kind |-> "Plain", nodelay |-> TRUE]
        /\ connector_inits = 0
        /\ key = k
        /\ keys_generated = 0
        /\ written = << >>
        /\ writes = 0
        /\ flushes = 0
        /\ flushed = 0
        /\ rpos = 0
        /\ hdr = << >>
        /\ scan_pos = 0
        /\ nreads = 0
        /\ last_read = "none"
        /\ ws = NoWs
        /\ result = "none"
        /\ last = "none"
        /\ InitTlsVars
        /\ keygen = KeygenStart
    /\ keygen = KeygenStart

NextWrite ==
    \/ WriteRequest
    \/ FlushRequest

SpecWrite == InitWrite /\ [][NextWrite]_vars

(***************************************************************************)
(* url.rs: parse_ws_or_wss applied to texts put together from prefixes,    *)
(* hosts, port parts and paths, and to the examples of the contract.       *)
(***************************************************************************)
\* prefixes: 'ws://', 'wss://', 'http://', 'WS://', 'Wss://', 'ws:/', 's://', ''
UrlPrefixes ==
    {<<119, 115, 58, 47, 47>>,
     <<119, 115, 115, 58, 47, 47>>,
     <<104, 116, 116, 112, 58, 47, 47>>,
     <<87, 83, 58, 47, 47>>,
     <<87, 115, 115, 58, 47, 47>>,
     <<119, 115, 58, 47>>,
     <<115, 58, 47, 47>>,
     << >>}

\* hosts: 'h', '', 'a.b', '[::1]'
UrlHosts ==
    {<<104>>,
     << >>,
     <<97, 46, 98>>,
     <<91, 58, 58, 49, 93>>}

\* port parts: '', ':80', ':8443', ':65535', ':65536', ':', ':x', ':+80', ':-1', ':080', ':8 0', ':99999999999'
UrlPorts ==
    {<< >>,
     <<58, 56, 48>>,
     <<58, 56, 52, 52, 51>>,
     <<58, 54, 53, 53, 51, 53>>,
     <<58, 54, 53, 53, 51, 54>>,
     <<58>>,
     <<58, 120>>,
     <<58, 43, 56, 48>>,
     <<58, 45, 49>>,
     <<58, 48, 56, 48>>,
     <<58, 56, 32, 48>>,
     <<58, 57, 57, 57, 57, 57, 57, 57, 57, 57, 57, 57>>}

\* paths and queries: '', '/', '/p?x=1', '/a:b', '/p:80?q=/:9/', '?x=/y:1'
UrlPaths ==
    {<< >>,
     <<47>>,
     <<47, 112, 63, 120, 61, 49>>,
     <<47, 97, 58, 98>>,
     <<47, 112, 58, 56, 48, 63, 113, 61, 47, 58, 57, 47>>,
     <<63, 120, 61, 47, 121, 58, 49>>}

\* the examples of the contract: 'ws://example.com/path?x=1', 'wss://example.com:8443', 'ws://host:notaport/', 'http://x', 'WS://x', 'http://x:bad'
UrlExamples ==
    {<<119, 115, 58, 47, 47, 101, 120, 97, 109, 112, 108, 101, 46, 99, 111, 109, 47, 112, 97, 116, 104, 63, 120, 61, 49>>,
     <<119, 115, 115, 58, 47, 47, 101, 120, 97, 109, 112, 108, 101, 46, 99, 111, 109, 58, 56, 52, 52, 51>>,
     <<119, 115, 58, 47, 47, 104, 111, 115, 116, 58, 110, 111, 116, 97, 112, 111, 114, 116, 47>>,
     <<104, 116, 116, 112, 58, 47, 47, 120>>,
     <<87, 83, 58, 47, 47, 120>>,
     <<104, 116, 116, 112, 58, 47, 47, 120, 58, 98, 97, 100>>}

\* 'ws://example.com/path?x=1'
URL_EXAMPLE_PATH == <<119, 115, 58, 47, 47, 101, 120, 97, 109, 112, 108, 101, 46, 99, 111, 109, 47, 112, 97, 116, 104, 63, 120, 61, 49>>

\* 'wss://example.com:8443'
URL_EXAMPLE_PORT == <<119, 115, 115, 58, 47, 47, 101, 120, 97, 109, 112, 108, 101, 46, 99, 111, 109, 58, 56, 52, 52, 51>>

\* 'ws://host:notaport/'
URL_EXAMPLE_BAD_PORT == <<119, 115, 58, 47, 47, 104, 111, 115, 116, 58, 110, 111, 116, 97, 112, 111, 114, 116, 47>>

\* 'http://x'
URL_EXAMPLE_HTTP == <<104, 116, 116, 112, 58, 47, 47, 120>>

\* 'WS://x'
URL_EXAMPLE_UPPER == <<87, 83, 58, 47, 47, 120>>

\* 'http://x:bad'
URL_EXAMPLE_HTTP_BAD_PORT == <<104, 116, 116, 112, 58, 47, 47, 120, 58, 98, 97, 100>>

\* 'example.com'
TEXT_EXAMPLE_COM == <<101, 120, 97, 109, 112, 108, 101, 46, 99, 111, 109>>

\* '/path?x=1'
TEXT_PATH_X1 == <<47, 112, 97, 116, 104, 63, 120, 61, 49>>

\* '/'
TEXT_SLASH == <<47>>


UrlInputs ==
    {p \o h \o c \o q : p \in UrlPrefixes, h \in UrlHosts, c \in UrlPorts, q \in UrlPaths}
    \cup UrlExamples

InitUrl == \E x \in UrlInputs : InitWith(Scenario(x, << >>, GoodPeer))

NextUrl == ParseUrl

SpecUrl == InitUrl /\ [][NextUrl]_vars

(***************************************************************************)
(* tls.rs: default_connector called from several threads of the process.   *)
(* GLOBAL_CONNECTOR.get_or_init returns the stored value if there is one;  *)
(* otherwise the caller enters the Once, where it runs the closure if the  *)
(* Once is Incomplete, waits while it is Running and returns the stored    *)
(* value once it is Complete.                                              *)
(***************************************************************************)
connect_vars ==
    <<pc, url, extra_headers, peer, u, stream, key, keys_generated, written, writes,
      flushes, flushed, rpos, hdr, scan_pos, nreads, last_read, ws, result, last, keygen>>

\* line 20: get_or_init, the check for a stored value
CallDefaultConnector(t) ==
    /\ caller_pc[t] \in {"idle", "returned"}
    /\ caller_calls[t] < MaxCalls
    /\ caller_calls' = [caller_calls EXCEPT ![t] = @ + 1]
    /\ IF once = "Complete"
       THEN /\ caller_pc' = [caller_pc EXCEPT ![t] = "returned"]
            /\ caller_got' = [caller_got EXCEPT ![t] = connector]
       ELSE /\ caller_pc' = [caller_pc EXCEPT ![t] = "initialize"]
            /\ caller_got' = [caller_got EXCEPT ![t] = 0]
    /\ UNCHANGED <<once, connector, connector_inits>>
    /\ UNCHANGED connect_vars

\* line 20: get_or_init, entering the Once
EnterOnce(t) ==
    /\ caller_pc[t] = "initialize"
    /\ once_acquirable(once) \/ once = "Complete"
    /\ IF once_acquirable(once)
       THEN /\ once' = "Running"
            /\ caller_pc' = [caller_pc EXCEPT ![t] = "closure"]
            /\ UNCHANGED caller_got
       ELSE /\ caller_pc' = [caller_pc EXCEPT ![t] = "returned"]
            /\ caller_got' = [caller_got EXCEPT ![t] = connector]
            /\ UNCHANGED once
    /\ UNCHANGED <<connector, connector_inits, caller_calls>>
    /\ UNCHANGED connect_vars

\* lines 21-30: the closure installs the crypto provider and builds the
\* connector
RunClosure(t) ==
    /\ caller_pc[t] = "closure"
    /\ connector_inits' = connector_inits + 1
    /\ caller_got' = [caller_got EXCEPT ![t] = new_connector(connector_inits)]
    /\ caller_pc' = [caller_pc EXCEPT ![t] = "store"]
    /\ UNCHANGED <<once, connector, caller_calls>>
    /\ UNCHANGED connect_vars

\* line 20: get_or_init stores the value the closure returned, completes
\* the Once and returns the stored value
StoreConnector(t) ==
    /\ caller_pc[t] = "store"
    /\ connector' = caller_got[t]
    /\ once' = "Complete"
    /\ caller_pc' = [caller_pc EXCEPT ![t] = "returned"]
    /\ UNCHANGED <<connector_inits, caller_got, caller_calls>>
    /\ UNCHANGED connect_vars

InitTls == InitWith(Scenario(URL_WSS, << >>, GoodPeer))

NextTls ==
    \E t \in Callers :
        \/ CallDefaultConnector(t)
        \/ EnterOnce(t)
        \/ RunClosure(t)
        \/ StoreConnector(t)

SpecTls == InitTls /\ [][NextTls]_vars

(***************************************************************************)
(* generate_client_key on its own, one step per source line and one step   *)
(* per SHA-1 round; ReturnKey hands the pair to the connect flow where     *)
(* GenerateKey would.                                                      *)
(***************************************************************************)
KeyBytes == {BYTES_SAMPLE, BYTES_COUNTING, BYTES_ZEROS, BYTES_ONES}

\* the pair the base64 and sha1 crates produce for the drawn bytes
KnownKey(bytes) ==
    CASE bytes = BYTES_SAMPLE   -> KEY_SAMPLE
      [] bytes = BYTES_COUNTING -> KEY_COUNTING
      [] bytes = BYTES_ZEROS    -> KEY_ZEROS
      [] bytes = BYTES_ONES     -> KEY_ONES

InitKey ==
    \E sc \in {Scenario(URL_WS_PATH, << >>, GoodPeer), Scenario(URL_WS_PORT, << >>, GoodPeer)} :
        /\ pc = "generate_key"
        /\ url = sc.url
        /\ extra_headers = sc.extra_headers
        /\ peer = sc.peer
        /\ u = parse_ws_or_wss(sc.url)
        /\ stream = [kind |-> "Plain", nodelay |-> TRUE]
        /\ connector_inits = 0
        /\ key = NoKey
        /\ keys_generated = 0
        /\ written = << >>
        /\ writes = 0
        /\ flushes = 0
        /\ flushed = 0
        /\ rpos = 0
        /\ hdr = << >>
        /\ scan_pos = 0
        /\ nreads = 0
        /\ last_read = "none"
        /\ ws = NoWs
        /\ result = "none"
        /\ last = "none"
        /\ InitTlsVars
        /\ keygen = KeygenStart

KeyUnchanged ==
    UNCHANGED <<pc, url, extra_headers, peer, u, stream, connector_inits, key, keys_generated,
                written, writes, flushes, flushed, rpos, hdr, scan_pos, nreads, last_read,
                ws, result, last, tls_vars>>

\* line 37: rand::rng().fill(&mut key_bytes)
FillBytes ==
    /\ pc = "generate_key"
    /\ keygen.pc = "fill"
    /\ \E b \in KeyBytes : keygen' = [keygen EXCEPT !.pc = "encode_key", !.key_bytes = b]
    /\ KeyUnchanged

\* line 38: b64.encode(key_bytes)
EncodeKey ==
    /\ keygen.pc = "encode_key"
    /\ keygen' = [keygen EXCEPT !.pc = "update",
                                !.sec_websocket_key = base64_encode(keygen.key_bytes)]
    /\ KeyUnchanged

\* lines 40-42: Sha1::new() and the two update calls; 60 bytes stay in the
\* hasher's buffer
Sha1Update ==
    /\ keygen.pc = "update"
    /\ keygen' = [keygen EXCEPT !.pc = "finalize",
                                !.h = SHA1_H0,
                                !.input = accept_input(keygen.sec_websocket_key)]
    /\ KeyUnchanged

\* line 43: finalize pads the buffered input and starts on its first block
Sha1Finalize ==
    /\ keygen.pc = "finalize"
    /\ keygen' = [keygen EXCEPT !.pc = "block", !.padded = sha1_pad(keygen.input), !.block = 0]
    /\ KeyUnchanged

\* line 43: the working variables and the first 16 schedule words of a block
Sha1BlockStart ==
    /\ keygen.pc = "block"
    /\ keygen' = [keygen EXCEPT !.pc = "round",
                                !.v = keygen.h,
                                !.w = [i \in 1..16 |-> sha1_block_word(keygen.padded, keygen.block, i - 1)],
                                !.t = 0]
    /\ KeyUnchanged

\* line 43: one of the 80 rounds of a block
Sha1Round ==
    /\ keygen.pc = "round"
    /\ keygen.t < 80
    /\ LET t  == keygen.t
           w2 == IF t < 16 THEN keygen.w ELSE Append(keygen.w, sha1_schedule(keygen.w, t))
       IN  keygen' = [keygen EXCEPT !.v = sha1_round(keygen.v, t, w2[t + 1]),
                                    !.w = w2,
                                    !.t = t + 1]
    /\ KeyUnchanged

\* line 43: the block's result is added to the state; the next block, or
\* the digest
Sha1BlockEnd ==
    /\ keygen.pc = "round"
    /\ keygen.t = 80
    /\ LET h2 == [i \in 1..5 |-> word_add(keygen.h[i], keygen.v[i])]
           more == 64 * (keygen.block + 1) < Len(keygen.padded)
       IN  keygen' = [keygen EXCEPT !.h = h2,
                                    !.block = keygen.block + 1,
                                    !.pc = IF more THEN "block" ELSE "encode_accept"]
    /\ KeyUnchanged

\* line 43: b64.encode of the 20 digest bytes
EncodeAccept ==
    /\ keygen.pc = "encode_accept"
    /\ keygen' = [keygen EXCEPT !.pc = "return",
                                !.expected_accept = base64_encode(sha1_digest(keygen.h))]
    /\ KeyUnchanged

\* lines 45-48: the ClientKey returned to connect_with_buffer_size
ReturnKey ==
    /\ pc = "generate_key"
    /\ keygen.pc = "return"
    /\ key' = [sec_websocket_key |-> keygen.sec_websocket_key,
               expected_accept   |-> keygen.expected_accept]
    /\ keys_generated' = keys_generated + 1
    /\ pc' = "write_request"
    /\ last' = "GenerateKey"
    /\ keygen' = [keygen EXCEPT !.pc = "done"]
    /\ UNCHANGED <<url, extra_headers, peer, u, stream, connector_inits, written, writes,
                   flushes, flushed, rpos, hdr, scan_pos, nreads, last_read, ws, result>>
    /\ UNCHANGED tls_vars

NextKey ==
    \/ FillBytes
    \/ EncodeKey
    \/ Sha1Update
    \/ Sha1Finalize
    \/ Sha1BlockStart
    \/ Sha1Round
    \/ Sha1BlockEnd
    \/ EncodeAccept
    \/ ReturnKey

SpecKey == InitKey /\ [][NextKey]_vars

(***************************************************************************)
(* read_response on its own, called on an open connection whose request    *)
(* has been written and flushed, against peers that send their stream a    *)
(* fixed number of bytes at a time.                                        *)
(***************************************************************************)
\* bytes a slow peer sends at a time: for a response, and for filler
ResponseDrips == {1, 2, 3, 4, 5}

FillerDrips == {64, 1000}

ReadPeers ==
    \* filler without a blank line, longer than the cap
    {Peer(<< >>, << >>, << >>, MAX_HEADER_BYTES + 2, FALSE, << >>, {}, 0 - n) :
        n \in FillerDrips}
    \* a complete response, alone and with a frame behind it
    \cup {Peer(<< >>, STATUS_101, GoodHeaders, 0, TRUE, after, {}, 0 - n) :
            after \in {<< >>, FRAME_TEXT_HI}, n \in ResponseDrips}
    \* a response that stops before its blank line
    \cup {Peer(<< >>, STATUS_101, GoodHeaders, 0, FALSE, << >>, {}, 0 - n) :
            n \in ResponseDrips}

InitReadWith(peers) ==
    \E p \in peers :
        /\ pc = "read_response"
        /\ url = URL_WS_PATH
        /\ extra_headers = << >>
        /\ peer = p
        /\ u = parse_ws_or_wss(URL_WS_PATH)
        /\ stream = [kind |-> "Plain", nodelay |-> TRUE]
        /\ connector_inits = 0
        /\ key = KEY_SAMPLE
        /\ keys_generated = 1
        /\ written = request_buffer(parse_ws_or_wss(URL_WS_PATH).host,
                                    parse_ws_or_wss(URL_WS_PATH).path_and_query,
                                    KEY_SAMPLE.sec_websocket_key, << >>)
        /\ writes = 1
        /\ flushes = 1
        /\ flushed = Len(written)
        /\ rpos = 0
        /\ hdr = << >>
        /\ scan_pos = 0
        /\ nreads = 0
        /\ last_read = "none"
        /\ ws = NoWs
        /\ result = "none"
        /\ last = "FlushRequest"
        /\ InitTlsVars
        /\ keygen = KeygenStart

InitRead == InitReadWith(ReadPeers)

NextRead ==
    \/ ReadChunk
    \/ FinishResponse

SpecRead == InitRead /\ [][NextRead]_vars

\* every stream.read returns
SpecReadFair == SpecRead /\ WF_vars(ReadChunk)

(***************************************************************************)
(* read_response against 101 responses in which the required header names  *)
(* occur once, several times or not at all, with right and wrong values in *)
(* every order.                                                            *)
(***************************************************************************)
\* most header lines of such a response
MaxAnswerHeaders == 4

AnswerHeaders ==
    {H(NAME_CONNECTION, VAL_UPGRADE), H(NAME_CONNECTION_LOWER, VAL_KEEPALIVE),
     H(NAME_UPGRADE, VAL_WEBSOCKET), H(NAME_UPGRADE_UPPER, VAL_CHUNKED),
     HEcho(NAME_ACCEPT), H(NAME_ACCEPT_LOWER, VAL_ACCEPT_WRONG)}

DupPeers ==
    {Peer(<< >>, STATUS_101, hs, 0, TRUE, << >>, {}, 0) :
        hs \in UNION {[1..n -> AnswerHeaders] : n \in 3..MaxAnswerHeaders}}

InitDup == InitReadWith(DupPeers)

SpecDup == InitDup /\ [][NextRead]_vars

(***************************************************************************)
(* Properties.                                                             *)
(***************************************************************************)
\* What read_response returned, once FinishResponse has run.
Outcome == IF pc = "failed" THEN result ELSE "Ok"

\* value has a comma-separated part that, trimmed, is token in any letter
\* case: a and b are the places of the delimiters around the part.
HasPart(value, token) ==
    \E a \in 0..Len(value), b \in 1..(Len(value) + 1) :
        /\ a < b
        /\ a = 0 \/ value[a] = 44
        /\ b = Len(value) + 1 \/ value[b] = 44
        /\ \A i \in (a + 1)..(b - 1) : value[i] # 44
        /\ eq_ignore_ascii_case(trim(Slice(value, a + 1, b - 1)), token)

\* The four checks on the response parsed from the accumulated bytes.
FourChecksHold ==
    LET r == response_parse(hdr)
        c == find_header(r.headers, NAME_CONNECTION)
        g == find_header(r.headers, NAME_UPGRADE)
        a == find_header(r.headers, NAME_ACCEPT)
    IN  /\ r.kind = "Complete"
        /\ r.code = 101
        /\ c.some /\ HasPart(c.value, TOKEN_UPGRADE)
        /\ g.some /\ eq_ignore_ascii_case(g.value, TOKEN_WEBSOCKET)
        /\ a.some /\ a.value = key.expected_accept

\* C1: read_response returns Ok, and connect_with_buffer_size builds the
\* WebSocket, only when the parsed response has status 101, a Connection
\* header with the token upgrade, an Upgrade header equal to websocket and a
\* Sec-WebSocket-Accept header equal to the expected accept value.
C1_SuccessOnlyIfAllChecks ==
    (pc \in {"after_handshake", "done"} \/ ws.built) => FourChecksHold

C1_Witness ==
    /\ ws.built
    /\ FourChecksHold
    /\ find_header(response_parse(hdr).headers, NAME_CONNECTION).value = VAL_KEEPALIVE_UPGRADE

\* C2: after a successful handshake the frame engine receives every byte the
\* peer sent after the blank line: what after_handshake put in the read
\* buffer of the WebSocket, followed by what the transport has not returned
\* yet, is the peer's stream after the blank line.
C2_NoByteLost ==
    ws.built => ws.read_buffer \o Tail_(PeerStream(peer, key), rpos + 1) = peer.after

\* The error the first failing check gives, in the order parse, status,
\* Connection, Upgrade, Sec-WebSocket-Accept, where a value that is not
\* UTF-8 fails its check with Utf8.
FirstFailure(data, expected) ==
    LET r == response_parse(data)
        c == find_header(r.headers, NAME_CONNECTION)
        g == find_header(r.headers, NAME_UPGRADE)
        a == find_header(r.headers, NAME_ACCEPT)
    IN  IF r.kind # "Complete" THEN "Headers"
        ELSE IF r.code # 101 THEN "Status"
        ELSE IF ~c.some THEN "Headers"
        ELSE IF ~from_utf8_ok(c.value) THEN "Utf8"
        ELSE IF ~HasPart(c.value, TOKEN_UPGRADE) THEN "Headers"
        ELSE IF ~g.some THEN "Headers"
        ELSE IF ~from_utf8_ok(g.value) THEN "Utf8"
        ELSE IF ~eq_ignore_ascii_case(g.value, TOKEN_WEBSOCKET) THEN "Headers"
        ELSE IF ~a.some THEN "Headers"
        ELSE IF ~from_utf8_ok(a.value) THEN "Utf8"
        ELSE IF a.value # expected THEN "Accept"
        ELSE "Ok"

\* The same order with the errors C3 names: Headers for the Connection and
\* the Upgrade check, Accept for a Sec-WebSocket-Accept value that differs.
FirstFailureAsStated(data, expected) ==
    LET r == response_parse(data)
        c == find_header(r.headers, NAME_CONNECTION)
        g == find_header(r.headers, NAME_UPGRADE)
        a == find_header(r.headers, NAME_ACCEPT)
    IN  IF r.kind # "Complete" THEN "Headers"
        ELSE IF r.code # 101 THEN "Status"
        ELSE IF ~(c.some /\ HasPart(c.value, TOKEN_UPGRADE)) THEN "Headers"
        ELSE IF ~(g.some /\ eq_ignore_ascii_case(g.value, TOKEN_WEBSOCKET)) THEN "Headers"
        ELSE IF ~a.some THEN "Headers"
        ELSE IF a.value # expected THEN "Accept"
        ELSE "Ok"

\* C3 as stated: once the terminator is found, read_response reports the
\* first failing check in the order parse -> Headers, status -> Status,
\* Connection -> Headers, Upgrade -> Headers, accept mismatch -> Accept; so
\* a 101 response with correct Connection and Upgrade and a wrong
\* Sec-WebSocket-Accept always yields Accept.
C3_OrderAsStated ==
    last = "FinishResponse" => Outcome = FirstFailureAsStated(hdr, key.expected_accept)

\* C3, amended: the same order, where the Connection, Upgrade or
\* Sec-WebSocket-Accept check of a value that is not valid UTF-8 yields Utf8;
\* a wrong Sec-WebSocket-Accept that is valid UTF-8 yields Accept, and a
\* response that parses with a status other than 101 yields Status.
C3_OrderOfChecks ==
    last = "FinishResponse" => Outcome = FirstFailure(hdr, key.expected_accept)

C3_Witness ==
    /\ last = "FinishResponse"
    /\ result = "Accept"
    /\ response_parse(hdr).code = 101
    /\ find_header(response_parse(hdr).headers, NAME_ACCEPT).value = VAL_ACCEPT_WRONG

\* C4: the buffer of read_response never holds more than 16 KiB plus one
\* chunk, holds at most 16 KiB whenever the loop goes on, and a peer that
\* sends more than 16 KiB without a blank line makes read_response fail
\* with Oversized (unless a read fails first).
C4_CapEnforced ==
    /\ Len(hdr) <= MAX_HEADER_BYTES + CHUNK_SIZE
    /\ pc = "read_response" => Len(hdr) <= MAX_HEADER_BYTES
    /\ Len(hdr) > MAX_HEADER_BYTES => result = "Oversized"
    /\ ( /\ ~finder_find(PeerStream(peer, key), 0)
         /\ Len(PeerStream(peer, key)) > MAX_HEADER_BYTES
         /\ nreads > 0
         /\ pc # "read_response" )
       => /\ result \in {"Oversized", "Io"}
          /\ result = "Oversized" <=> last_read = "data"

C4_Witness ==
    /\ result = "Oversized"
    /\ Len(hdr) = MAX_HEADER_BYTES + CHUNK_SIZE
    /\ ~finder_find(hdr, 0)

\* 'GET '
WIRE_GET == <<71, 69, 84, 32>>
\* ' HTTP/1.1\r\n'
WIRE_VERSION_LINE_END == <<32, 72, 84, 84, 80, 47, 49, 46, 49, 13, 10>>
\* 'Host: '
WIRE_HOST == <<72, 111, 115, 116, 58, 32>>
\* 'Upgrade: websocket\r\nConnection: Upgrade\r\nSec-WebSocket-Version: 13\r\n'
WIRE_FIXED_LINES == <<85, 112, 103, 114, 97, 100, 101, 58, 32, 119, 101, 98, 115, 111, 99, 107, 101, 116, 13, 10, 67, 111, 110, 110, 101, 99, 116, 105, 111, 110, 58, 32, 85, 112, 103, 114, 97, 100, 101, 13, 10, 83, 101, 99, 45, 87, 101, 98, 83, 111, 99, 107, 101, 116, 45, 86, 101, 114, 115, 105, 111, 110, 58, 32, 49, 51, 13, 10>>
\* 'Sec-WebSocket-Key: '
WIRE_KEY == <<83, 101, 99, 45, 87, 101, 98, 83, 111, 99, 107, 101, 116, 45, 75, 101, 121, 58, 32>>
\* '\r\n'
WIRE_EOL == <<13, 10>>
\* ': '
WIRE_COLON_SP == <<58, 32>>

\* The request of section 4.4 for the parsed URL, the key and the extra
\* headers of this attempt.
ExpectedRequest ==
    WIRE_GET \o u.path_and_query \o WIRE_VERSION_LINE_END
    \o WIRE_HOST \o u.host \o WIRE_EOL
    \o WIRE_FIXED_LINES
    \o WIRE_KEY \o key.sec_websocket_key \o WIRE_EOL
    \o Concat([i \in 1..Len(extra_headers) |->
                  extra_headers[i].name \o WIRE_COLON_SP \o extra_headers[i].value
                      \o WIRE_EOL])
    \o WIRE_EOL

\* C5: a read of the response happens only when write_all has taken the
\* whole request and flush has returned Ok, and once a read has happened
\* nothing is written or flushed any more.
C5_WriteBeforeRead ==
    [][ /\ nreads' # nreads =>
            /\ writes = 1
            /\ written = ExpectedRequest
            /\ flushes = 1
            /\ flushed = Len(written)
        /\ nreads > 0 =>
            /\ written' = written
            /\ writes' = writes
            /\ flushes' = flushes
            /\ flushed' = flushed ]_vars

C5_Witness ==
    /\ nreads > 1
    /\ hdr # << >>
    /\ written = ExpectedRequest
    /\ flushed = Len(written)

\* The errors each step of connect_with_buffer_size can raise.
StepErrors(step) ==
    CASE step = "ParseUrl"       -> {parse_ws_or_wss(url).err} \cap {"Scheme", "Port"}
      [] step = "OpenTransport"  -> {"Io", "Nodelay", "Dns", "Rustls"}
      [] step = "WriteRequest"   -> {"Io"}
      [] step = "FlushRequest"   -> {"Io"}
      [] step = "ReadChunk"      -> {"Io", "Eof", "Oversized"}
      [] step = "FinishResponse" -> {"Status", "Headers", "Accept", "Utf8"}
      [] OTHER                   -> {}

\* C6: the steps run in the order parse URL, open transport, generate key,
\* write request, read and validate response, construct WebSocket; a step
\* has run only if every earlier step succeeded, the attempt has failed
\* exactly when an error is returned, the error is one the failing step
\* raises, and the WebSocket is built only in an attempt that returns Ok.
C6_StepOrder ==
    /\ pc = "failed" <=> result \notin {"none", "Ok"}
    /\ pc = "done" <=> result = "Ok"
    /\ ws.built <=> pc = "done"
    /\ pc = "failed" => result \in StepErrors(last)
    /\ ~u.ok => stream.kind = "none" /\ connector_inits = 0
    /\ stream.kind = "none" => keys_generated = 0 /\ key = NoKey
    /\ keys_generated = 0 => writes = 0 /\ written = << >>
    /\ written # ExpectedRequest => flushes = 0
    /\ flushed # Len(written) \/ flushes = 0 => nreads = 0 /\ hdr = << >>
    /\ ws.built => nreads > 0 /\ validate_response(hdr, key.expected_accept) = "Ok"
    /\ pc = "failed" /\ last = "ParseUrl" => ~u.ok
    /\ pc = "failed" /\ last = "OpenTransport" => stream.kind = "none"
    /\ pc = "failed" /\ last = "WriteRequest" => flushes = 0
    /\ pc = "failed" /\ last = "FlushRequest" => nreads = 0

C6_Witness ==
    /\ pc = "failed"
    /\ last = "WriteRequest"
    /\ result = "Io"
    /\ written # << >>
    /\ flushes = 0
    /\ nreads = 0
    /\ ~ws.built

\* C7: whenever the peer sends a 101 response of at most 16 KiB that parses
\* and carries the three required headers with correct values, the read and
\* validation of the response fail only if a read of the transport fails.
C7_AcceptsWellFormed ==
    ( /\ pc = "failed"
      /\ last \in {"ReadChunk", "FinishResponse"}
      /\ peer.lead = << >>
      /\ peer.complete
      /\ Len(PeerHead(peer, key)) <= MAX_HEADER_BYTES
      /\ FirstFailure(PeerHead(peer, key), key.expected_accept) = "Ok" )
    => result = "Io"

\* What the Upgrade and Sec-WebSocket-Accept checks give once the
\* Connection check has passed.
AfterConnection(headers, expected) ==
    LET g == find_header(headers, NAME_UPGRADE)
        a == find_header(headers, NAME_ACCEPT)
    IN  IF ~g.some THEN "Headers"
        ELSE IF ~from_utf8_ok(g.value) THEN "Utf8"
        ELSE IF ~eq_ignore_ascii_case(g.value, TOKEN_WEBSOCKET) THEN "Headers"
        ELSE IF ~a.some THEN "Headers"
        ELSE IF ~from_utf8_ok(a.value) THEN "Utf8"
        ELSE IF a.value # expected THEN "Accept"
        ELSE "Ok"

\* The response reached the Connection check: it parsed with status 101.
ReachedConnectionCheck ==
    /\ last = "FinishResponse"
    /\ response_parse(hdr).kind = "Complete"
    /\ response_parse(hdr).code = 101

\* C8 as stated: the Connection check passes exactly when the value, split
\* on commas with each part trimmed, has a part equal to upgrade ignoring
\* ASCII case; a missing header or a value without the token gives Headers.
C8_TokenSearchAsStated ==
    ReachedConnectionCheck =>
        LET r == response_parse(hdr)
            c == find_header(r.headers, NAME_CONNECTION)
        IN  IF c.some /\ HasPart(c.value, TOKEN_UPGRADE)
            THEN Outcome = AfterConnection(r.headers, key.expected_accept)
            ELSE Outcome = "Headers"

\* C8, amended: a Connection value that is not valid UTF-8 gives Utf8,
\* whatever its parts; a value that is valid UTF-8 passes exactly when one of
\* its comma-separated parts, trimmed, is upgrade ignoring ASCII case, so
\* 'keep-alive, Upgrade' passes and 'keep-alive' and 'upgraded' fail; a
\* missing header or a valid value without the token gives Headers.
C8_TokenSearch ==
    /\ header_has_token(VAL_KEEPALIVE_UPGRADE, TOKEN_UPGRADE) = OkBool(TRUE)
    /\ header_has_token(VAL_KEEPALIVE, TOKEN_UPGRADE) = OkBool(FALSE)
    /\ header_has_token(VAL_UPGRADED, TOKEN_UPGRADE) = OkBool(FALSE)
    /\ ReachedConnectionCheck =>
        LET r == response_parse(hdr)
            c == find_header(r.headers, NAME_CONNECTION)
        IN  IF ~c.some THEN Outcome = "Headers"
            ELSE IF ~from_utf8_ok(c.value) THEN Outcome = "Utf8"
            ELSE IF HasPart(c.value, TOKEN_UPGRADE)
            THEN Outcome = AfterConnection(r.headers, key.expected_accept)
            ELSE Outcome = "Headers"

C8_Witness ==
    /\ ReachedConnectionCheck
    /\ pc = "after_handshake"
    /\ find_header(response_parse(hdr).headers, NAME_CONNECTION).value
           = VAL_KEEPALIVE_UPGRADE

\* C9: a read that returns zero bytes in the loop of read_response, which
\* runs only while the terminator has not been found, makes the attempt
\* fail with Eof whatever the buffer holds; a read that returns an error
\* makes it fail with Io.
C9_EofAndIo ==
    /\ last_read = "eof" => pc = "failed" /\ result = "Eof" /\ last = "ReadChunk"
    /\ last_read = "error" => pc = "failed" /\ result = "Io" /\ last = "ReadChunk"
    /\ result = "Eof" => last_read = "eof" /\ ~finder_find(hdr, 0)

C9_Witness ==
    /\ last_read = "eof"
    /\ result = "Eof"
    /\ hdr # << >>
    /\ rpos = Len(PeerStream(peer, key))

\* write_request has returned Ok.
WriteRequestOk ==
    \/ pc \in {"read_response", "after_handshake", "done"}
    \/ pc = "failed" /\ last \in {"ReadChunk", "FinishResponse"}

\* C10: when write_request succeeds the transport has been handed exactly
\* the request line, the Host, Upgrade, Connection, Sec-WebSocket-Version
\* and Sec-WebSocket-Key lines, one line per extra header in caller order and
\* the final blank line, in a single write_all of the assembled buffer
\* followed by exactly one flush.
C10_ExactRequest ==
    /\ writes <= 1
    /\ flushes <= 1
    /\ writes = 0 => written = << >>
    /\ flushes = 1 => writes = 1
    /\ WriteRequestOk =>
        /\ written = ExpectedRequest
        /\ writes = 1
        /\ flushes = 1
        /\ flushed = Len(written)

C10_Witness ==
    /\ pc = "read_response"
    /\ Len(extra_headers) = MaxExtraHeaders
    /\ extra_headers[1] # extra_headers[2]
    /\ written = ExpectedRequest
    /\ flushes = 1

\* The size of the whole request in unbounded arithmetic.
RequestTrueLen ==
    base_len_sum(u.host, u.path_and_query, key.sec_websocket_key)
    + extra_headers_sum(extra_headers)

\* The size computation of write_request fails: the size of the extra
\* headers, or the size of the request with a base size that fits, is not
\* representable.
SizeComputationFails ==
    \/ extra_headers_sum(extra_headers) > USIZE_MAX
    \/ /\ base_len_sum(u.host, u.path_and_query, key.sec_websocket_key) <= USIZE_MAX
       /\ RequestTrueLen > USIZE_MAX

\* C11: when the size computation of write_request fails, and whenever
\* write_request returns before write_all (the size computation or the
\* reservation of the buffer failed), it returns the error Io and nothing
\* has been written to or flushed on the transport.
C11_NoByteOnSizeFailure ==
    /\ last = "WriteRequest" /\ SizeComputationFails =>
            /\ pc = "failed"
            /\ result = "Io"
            /\ writes = 0
            /\ written = << >>
            /\ flushes = 0
            /\ flushed = 0
    /\ last = "WriteRequest" /\ pc = "failed" /\ writes = 0 =>
            /\ result = "Io"
            /\ written = << >>
            /\ flushes = 0
            /\ flushed = 0

C11_Witness ==
    /\ last = "WriteRequest"
    /\ extra_headers_sum(extra_headers) > USIZE_MAX
    /\ pc = "failed"
    /\ result = "Io"
    /\ written = << >>

\* C12: for every combination of part lengths whose true sum exceeds
\* USIZE_MAX, write_request fails with an error and writes nothing: the size
\* never wraps around.
C12_OverflowFails ==
    last = "WriteRequest" /\ RequestTrueLen > USIZE_MAX =>
        /\ pc = "failed"
        /\ result = "Io"
        /\ writes = 0

\* C13: for any number of callers of default_connector in any interleaving
\* the closure of get_or_init runs at most once, every call that has
\* returned returned the one stored connector, and the stored connector
\* never changes once there is one.
C13_ConnectorSingleton ==
    /\ [](connector_inits <= 1)
    /\ [](\A t \in Callers :
            caller_pc[t] = "returned" => caller_got[t] = connector /\ connector # 0)
    /\ [][connector # 0 => connector' = connector]_vars

C13_Witness ==
    /\ \A t \in Callers :
          /\ caller_pc[t] = "returned"
          /\ caller_calls[t] = MaxCalls
          /\ caller_got[t] = connector
    /\ connector_inits = 1
    /\ once = "Complete"

\* C14: every WebSocket connect_with_buffer_size returns is in client role
\* with automatic close and pong handling on, over the Tls variant exactly
\* when the URL starts with wss:// and the Plain variant exactly when it
\* starts with ws://, and with write gathering off exactly when the variant
\* is Tls.
C14_ClientConfiguration ==
    ws.built =>
        /\ result = "Ok"
        /\ ws.role = "Client"
        /\ ws.auto_close
        /\ ws.auto_pong
        /\ ws.stream \in {"Plain", "Tls"}
        /\ ws.stream = "Tls" <=> StartsWith(url, PREFIX_WSS)
        /\ ws.stream = "Plain" <=> StartsWith(url, PREFIX_WS)
        /\ ~ws.writev <=> ws.stream = "Tls"

C14_Witness ==
    /\ ws.built
    /\ StartsWith(url, PREFIX_WSS)
    /\ ws.stream = "Tls"
    /\ ~ws.writev

\* The parts of the url argument, read off its text.
\* 'wss://'
TEXT_WSS == <<119, 115, 115, 58, 47, 47>>
\* 'ws://'
TEXT_WS == <<119, 115, 58, 47, 47>>

UrlPrefix ==
    IF Len(url) >= 6 /\ SubSeq(url, 1, 6) = TEXT_WSS THEN TEXT_WSS
    ELSE IF Len(url) >= 5 /\ SubSeq(url, 1, 5) = TEXT_WS THEN TEXT_WS
    ELSE << >>

UrlRest == SubSeq(url, Len(UrlPrefix) + 1, Len(url))

\* index of the first '/' of the text after the prefix, 0 for none
UrlFirstSlash ==
    IF \E i \in 1..Len(UrlRest) : UrlRest[i] = 47
    THEN CHOOSE i \in 1..Len(UrlRest) :
            UrlRest[i] = 47 /\ \A j \in 1..(i - 1) : UrlRest[j] # 47
    ELSE 0

UrlHostPort ==
    IF UrlFirstSlash = 0 THEN UrlRest ELSE SubSeq(UrlRest, 1, UrlFirstSlash - 1)

\* index of the last ':' of the host-port segment, 0 for none
UrlLastColon ==
    IF \E i \in 1..Len(UrlHostPort) : UrlHostPort[i] = 58
    THEN CHOOSE i \in 1..Len(UrlHostPort) :
            UrlHostPort[i] = 58 /\ \A j \in (i + 1)..Len(UrlHostPort) : UrlHostPort[j] # 58
    ELSE 0

UrlPortText == SubSeq(UrlHostPort, UrlLastColon + 1, Len(UrlHostPort))

\* The digits of the port text after the sign u16::from_str allows and
\* after leading zeros.
UrlPortDigits ==
    LET t == IF Len(UrlPortText) > 1 /\ UrlPortText[1] = 43
             THEN SubSeq(UrlPortText, 2, Len(UrlPortText)) ELSE UrlPortText
        z == {i \in 1..Len(t) : t[i] # 48}
    IN  [all_digits |-> t # << >> /\ \A i \in 1..Len(t) : t[i] \in 48..57,
         significant |-> IF z = {} THEN << >>
                         ELSE SubSeq(t, CHOOSE i \in z : \A j \in z : i <= j, Len(t))]

UrlPortValue ==
    LET sig  == UrlPortDigits.significant
        n    == Len(sig)
        d(i) == IF i <= n THEN sig[n - i + 1] - 48 ELSE 0
    IN  IF ~UrlPortDigits.all_digits \/ n > 5 THEN -1
        ELSE LET v == d(1) + 10 * d(2) + 100 * d(3) + 1000 * d(4) + 10000 * d(5) IN
             IF v > 65535 THEN -1 ELSE v

\* C15: parse_ws_or_wss recognises exactly the prefixes ws:// (scheme Ws) and
\* wss:// (scheme Wss) in this letter case; every other input, among them
\* http://x, WS://x and the empty text, fails with Scheme, also when its
\* port is bad.
C15_SchemePrefixes ==
    /\ ~parse_ws_or_wss(URL_EXAMPLE_HTTP).ok
    /\ parse_ws_or_wss(URL_EXAMPLE_HTTP).err = "Scheme"
    /\ parse_ws_or_wss(URL_EXAMPLE_UPPER).err = "Scheme"
    /\ parse_ws_or_wss(<< >>).err = "Scheme"
    /\ parse_ws_or_wss(URL_EXAMPLE_HTTP_BAD_PORT).err = "Scheme"
    /\ last = "ParseUrl" =>
        /\ UrlPrefix = TEXT_WS => result # "Scheme" /\ (pc # "failed" => u.scheme = "Ws")
        /\ UrlPrefix = TEXT_WSS => result # "Scheme" /\ (pc # "failed" => u.scheme = "Wss")
        /\ UrlPrefix = << >> => pc = "failed" /\ result = "Scheme" /\ ~u.ok

C15_Witness ==
    /\ last = "ParseUrl"
    /\ url = URL_EXAMPLE_HTTP_BAD_PORT
    /\ result = "Scheme"

\* C16: with a recognised prefix, a host-port segment without ':' gives the
\* whole segment as host and port 80 for ws:// or 443 for wss://; otherwise
\* the segment is split at its last ':' and the parse succeeds, with the
\* value of the suffix as port, exactly when the suffix parses as a u16;
\* else it fails with Port.  Every successful result has a port in 0..65535.
C16_PortRules ==
    /\ parse_ws_or_wss(URL_EXAMPLE_PORT).port = 8443
    /\ parse_ws_or_wss(URL_EXAMPLE_BAD_PORT).err = "Port"
    /\ u.ok => u.port \in 0..65535
    /\ last = "ParseUrl" /\ UrlPrefix # << >> =>
        IF UrlLastColon = 0
        THEN /\ u.ok
             /\ u.host = UrlHostPort
             /\ u.port = (IF UrlPrefix = TEXT_WS THEN 80 ELSE 443)
        ELSE IF UrlPortValue >= 0
        THEN /\ u.ok
             /\ u.host = SubSeq(UrlHostPort, 1, UrlLastColon - 1)
             /\ u.port = UrlPortValue
        ELSE /\ pc = "failed"
             /\ result = "Port"
             /\ ~u.ok

C16_Witness ==
    /\ last = "ParseUrl"
    /\ UrlPrefix = TEXT_WSS
    /\ UrlLastColon > 0
    /\ u.ok
    /\ u.port = 65535

\* C17: the text after the prefix is split at its first '/': path_and_query
\* is the text from that '/' on, or '/' when there is none; host, port and
\* the outcome are those of the same URL without its path, whatever ':' the
\* path or query holds; and with a '/' present the host-port segment
\* followed by path_and_query is the input without its prefix.
C17_PathSplit ==
    /\ parse_ws_or_wss(URL_EXAMPLE_PATH)
         = UrlOk("Ws", TEXT_EXAMPLE_COM, 80, TEXT_PATH_X1)
    /\ parse_ws_or_wss(URL_EXAMPLE_PORT).path_and_query = TEXT_SLASH
    /\ last = "ParseUrl" /\ UrlPrefix # << >> =>
        LET r == parse_ws_or_wss(UrlPrefix \o UrlHostPort) IN
        /\ r.ok <=> u.ok
        /\ r.ok <=> pc # "failed"
        /\ ~r.ok => result = r.err
        /\ u.ok =>
            /\ u.host = r.host
            /\ u.port = r.port
            /\ u.scheme = r.scheme
            /\ u.path_and_query =
                 (IF UrlFirstSlash = 0 THEN TEXT_SLASH
                  ELSE SubSeq(UrlRest, UrlFirstSlash, Len(UrlRest)))
            /\ UrlHostPort \in {u.host, u.host \o <<58>> \o UrlPortText}
            /\ UrlFirstSlash > 0 => UrlHostPort \o u.path_and_query = UrlRest

C17_Witness ==
    /\ last = "ParseUrl"
    /\ u.ok
    /\ u.port = 8443
    /\ \E i \in 1..Len(u.path_and_query) : u.path_and_query[i] = 58
    /\ \E i \in 2..Len(u.path_and_query) : u.path_and_query[i] = 47

(***************************************************************************)
(* C18: the key is the base64 text of the 16 drawn bytes, and the expected *)
(* accept value is base64(SHA1(key ++ WS_GUID)): for every draw the pair   *)
(* generate_client_key returns is the pair known for those bytes, the key  *)
(* is 24 characters and the accept value 28, the hash input is the key     *)
(* followed by the GUID, and the key "dGhlIHNhbXBsZSBub25jZQ==" yields     *)
(* "s3pPLMBiTxaQ9kYGzzhZRbK+xOo=".                                         *)
(***************************************************************************)
C18_KeyAndAccept ==
    keygen.pc = "done" =>
        /\ key = KnownKey(keygen.key_bytes)
        /\ Len(key.sec_websocket_key) = 24
        /\ Len(key.expected_accept) = 28
        /\ keygen.input = key.sec_websocket_key \o WS_GUID
        /\ Len(keygen.padded) = 128
        /\ key.sec_websocket_key = KEY_SAMPLE.sec_websocket_key
               => key.expected_accept = KEY_SAMPLE.expected_accept

C18_Witness ==
    /\ keygen.pc = "done"
    /\ keygen.key_bytes = BYTES_SAMPLE
    /\ key = KEY_SAMPLE
    /\ pc = "write_request"

\* the first 16 KiB of what the peer sends
FirstHeaderBytes ==
    LET sent == PeerStream(peer, key)
    IN  SubSeq(sent, 1, IF Len(sent) < MAX_HEADER_BYTES THEN Len(sent) ELSE MAX_HEADER_BYTES)

\* C19: read_response fails with Oversized only when the bytes accumulated
\* so far hold no \r\n\r\n: whenever the result is Oversized the buffer has
\* no terminator, and no terminator ends within the first 16 KiB of the
\* peer's byte stream, whatever follows it and however the reads cut the
\* stream.
C19_OversizedOnlyWithoutTerminator ==
    result = "Oversized" =>
        /\ ~finder_find(hdr, 0)
        /\ ~finder_find(FirstHeaderBytes, 0)

\* the steps of an attempt that come before generate_client_key, and those
\* that come after it
BeforeKey == {"parse_url", "open_transport", "generate_key"}

AfterKey == {"write_request", "flush", "read_response", "after_handshake", "done"}

\* C20: an attempt generates exactly one key, with the transport open and
\* before anything of the request is written; what is written carries the
\* nonce of that key and a response is accepted only with the accept value
\* of that key; an attempt starts without a key, and the key is set once,
\* by generate_client_key, and never changes afterwards.
C20_OneKeyPerAttempt ==
    /\ [](keys_generated <= 1)
    /\ [](pc \in BeforeKey => keys_generated = 0)
    /\ [](pc \in AfterKey => keys_generated = 1)
    /\ [](keys_generated = 0 =>
            /\ key = NoKey
            /\ written = << >>
            /\ writes = 0
            /\ nreads = 0)
    /\ [](keys_generated = 1 =>
            /\ key \in ClientKeys
            /\ stream.kind \in {"Plain", "Tls"}
            /\ Len(written) <= Len(ExpectedRequest)
            /\ written = SubSeq(ExpectedRequest, 1, Len(written)))
    /\ []((pc \in {"after_handshake", "done"} \/ ws.built) =>
            /\ written = ExpectedRequest
            /\ find_header(response_parse(hdr).headers, NAME_ACCEPT).value = key.expected_accept)
    /\ [][key' # key =>
            /\ key = NoKey
            /\ pc = "generate_key"
            /\ pc' = "write_request"
            /\ stream.kind \in {"Plain", "Tls"}
            /\ written = << >>
            /\ keys_generated' = keys_generated + 1]_vars
    /\ [][keys_generated' # keys_generated => key' # key]_vars

C20_Witness ==
    /\ ws.built
    /\ result = "Ok"
    /\ keys_generated = 1
    /\ key = KEY_COUNTING
    /\ written = ExpectedRequest
    /\ find_header(response_parse(hdr).headers, NAME_ACCEPT).value = KEY_COUNTING.expected_accept

\* write_all took the whole request
WriteAllSucceeded == writes = 1 /\ ~(pc = "failed" /\ last = "WriteRequest")

C22_LoopTerminates ==
    /\ [](nreads <= MAX_HEADER_BYTES + 1)
    /\ [](pc = "read_response" => nreads <= Len(hdr) /\ Len(hdr) <= MAX_HEADER_BYTES)
    /\ [][nreads' # nreads /\ pc' = "read_response" => Len(hdr') >= Len(hdr) + 1]_vars
    /\ [](pc = "failed" /\ last = "ReadChunk" => result \in {"Eof", "Io", "Oversized"})
    /\ [](pc # "read_response" /\ last = "FinishResponse" => finder_find(hdr, 0))
    /\ <>(pc # "read_response" \/ finder_find(hdr, scan_pos))

C22_Witness ==
    /\ result = "Oversized"
    /\ last = "ReadChunk"
    /\ peer.seg = 0 - 1000
    /\ nreads = MAX_HEADER_BYTES \div 1000 + 1
    /\ Len(hdr) = MAX_HEADER_BYTES + 2

\* read_response has returned without a failed read, and what it returned
ReadResponseReturned ==
    /\ \/ pc = "failed" /\ last \in {"ReadChunk", "FinishResponse"}
       \/ pc \in {"after_handshake", "done"}
    /\ last_read # "error"

ReadResponseOutcome == IF pc = "failed" THEN result ELSE "Ok"

\* What a byte stream gives when it is read up to the end of its first
\* \r\n\r\n: the validation of that head, Oversized when more than 16 KiB
\* come before the head ends, Eof when the stream ends first.
StreamOutcome(sent, expected) ==
    LET ends == {i + 3 : i \in {j \in 1..(Len(sent) - 3) :
                                  \A k \in 1..4 : sent[j + k - 1] = TERMINATOR[k]}}
    IN  IF ends = {}
        THEN IF Len(sent) > MAX_HEADER_BYTES THEN "Oversized" ELSE "Eof"
        ELSE LET e == CHOOSE x \in ends : \A y \in ends : x <= y
             IN  IF e > MAX_HEADER_BYTES THEN "Oversized"
                 ELSE validate_response(SubSeq(sent, 1, e), expected)

\* C23: the result of read_response depends on the peer's byte stream and
\* the expected accept value alone: however the stream is cut into reads,
\* a call in which no read failed returns what the stream gives.
C23_DeliveryIndependent ==
    ReadResponseReturned =>
        ReadResponseOutcome = StreamOutcome(PeerStream(peer, key), key.expected_accept)

\* C24: at the top of every iteration of the loop of read_response the
\* search from scan_pos finds \r\n\r\n exactly when the whole buffer holds
\* it, also when the four bytes arrive in two, three or four reads; scan_pos
\* lies within the buffer and no terminator ends at or before it.
C24_IncrementalSearch ==
    pc = "read_response" =>
        /\ finder_find(hdr, scan_pos) <=> finder_find(hdr, 0)
        /\ scan_pos <= Len(hdr)
        /\ ~finder_find(SubSeq(hdr, 1, scan_pos), 0)

\* the terminator is found with each of its four bytes brought by a read of
\* its own
C24_Witness ==
    /\ pc = "read_response"
    /\ finder_find(hdr, scan_pos)
    /\ scan_pos > 0
    /\ scan_pos = Len(hdr) - Len(TERMINATOR)
    /\ {0 - 3, 0 - 2, 0 - 1} \subseteq peer.cuts
    /\ nreads >= Len(TERMINATOR)
    /\ last_read = "data"

\* the header lines of a response without the later occurrences of every
\* name, names compared without regard to letter case
FirstOccurrences(hs) ==
    LET keep == {i \in 1..Len(hs) :
                    \A j \in 1..(i - 1) : ~eq_ignore_ascii_case(hs[j].name, hs[i].name)}
        nth(k) == CHOOSE i \in keep : Cardinality({j \in keep : j <= i}) = k
    IN  [k \in 1..Cardinality(keep) |-> hs[nth(k)]]

\* the first header line of the response with that name
FirstLine(hs, name) ==
    hs[CHOOSE i \in 1..Len(hs) :
          /\ eq_ignore_ascii_case(hs[i].name, name)
          /\ \A j \in 1..(i - 1) : ~eq_ignore_ascii_case(hs[j].name, name)]

HasLine(hs, name) == \E i \in 1..Len(hs) : eq_ignore_ascii_case(hs[i].name, name)

BadUtf8Values == {VAL_UPGRADE_BAD_UTF8, VAL_WEBSOCKET_BAD_UTF8, VAL_ACCEPT_BAD_UTF8}

\* the value the peer sends in its first header line of that name
SentValue(name) == PeerValue(FirstLine(peer.headers, name), key)

SentBad(name) == HasLine(peer.headers, name) /\ SentValue(name) \in BadUtf8Values

\* the peer's Connection line, and its Upgrade line, passes its check
ConnectionPasses ==
    /\ HasLine(peer.headers, NAME_CONNECTION)
    /\ SentValue(NAME_CONNECTION) \notin BadUtf8Values
    /\ HasPart(SentValue(NAME_CONNECTION), TOKEN_UPGRADE)

UpgradePasses ==
    /\ HasLine(peer.headers, NAME_UPGRADE)
    /\ SentValue(NAME_UPGRADE) \notin BadUtf8Values
    /\ eq_ignore_ascii_case(SentValue(NAME_UPGRADE), TOKEN_WEBSOCKET)

\* C26: in a 101 response a required header whose value is not valid UTF-8
\* gives Utf8 when its check is reached, Connection before Upgrade before
\* Sec-WebSocket-Accept, and Utf8 is given in no other case; a missing
\* Sec-WebSocket-Accept gives Headers; Accept is given only for a
\* Sec-WebSocket-Accept value that is valid UTF-8 and differs from the
\* expected one.
C26_Utf8AndAccept ==
    ( /\ last = "FinishResponse"
      /\ response_parse(hdr).kind = "Complete"
      /\ response_parse(hdr).code = SWITCHING_PROTOCOLS )
    => /\ SentBad(NAME_CONNECTION) => ReadResponseOutcome = "Utf8"
       /\ ConnectionPasses /\ SentBad(NAME_UPGRADE) => ReadResponseOutcome = "Utf8"
       /\ ConnectionPasses /\ UpgradePasses /\ SentBad(NAME_ACCEPT)
            => ReadResponseOutcome = "Utf8"
       /\ ConnectionPasses /\ UpgradePasses /\ ~HasLine(peer.headers, NAME_ACCEPT)
            => ReadResponseOutcome = "Headers"
       /\ ReadResponseOutcome = "Utf8" =>
            \/ SentBad(NAME_CONNECTION)
            \/ ConnectionPasses /\ SentBad(NAME_UPGRADE)
            \/ ConnectionPasses /\ UpgradePasses /\ SentBad(NAME_ACCEPT)
       /\ ReadResponseOutcome = "Accept" =>
            /\ ConnectionPasses
            /\ UpgradePasses
            /\ HasLine(peer.headers, NAME_ACCEPT)
            /\ SentValue(NAME_ACCEPT) \notin BadUtf8Values
            /\ SentValue(NAME_ACCEPT) # key.expected_accept

\* a correct Connection and Upgrade with a Sec-WebSocket-Accept that is not
\* valid UTF-8
C26_Witness ==
    /\ last = "FinishResponse"
    /\ result = "Utf8"
    /\ peer.status = STATUS_101
    /\ peer.headers = <<H(NAME_CONNECTION, VAL_UPGRADE), H(NAME_UPGRADE, VAL_WEBSOCKET),
                        H(NAME_ACCEPT, VAL_ACCEPT_BAD_UTF8)>>

=============================================================================
